---- MODULE Spec2Model ----
(***************************************************************************)
(* Verification model of the document converter (python_converter):       *)
(* the command-line entry point `main` of converter.py and                 *)
(* converter_lite.py, the page reconstruction of pdf_to_html, the HTML     *)
(* tag-stream parser of html_to_pdf and the temporary-directory lifecycle  *)
(* of the paged emitters.  Each part has its own specification over the    *)
(* same variables; the variables of the other parts stay idle.             *)
(***************************************************************************)
EXTENDS Integers, Sequences, FiniteSets, TLC

VARIABLES
    \* ---- main (converter.py 2424-2456, converter_lite.py 562-591)
    converter,        \* which program runs: "full" (converter.py) or "lite"
    argc,             \* len(sys.argv)
    arg_type,         \* sys.argv[1] as typed (a sequence of characters)
    input_exists,     \* os.path.exists(input_file)
    conversion_type,  \* sys.argv[1].lower()
    main_pc,          \* position of main
    stdout,           \* lines printed so far
    calls,            \* handlers invoked so far, in order
    handler_result,   \* "none" | "returns" | "raises"
    exit_code,        \* -1 while running, else the code given to sys.exit
    \* ---- pdf_to_html, one iteration of the page loop
    \*      (converter.py 1854-2107, converter_lite.py 429-518)
    page,             \* what the PDF libraries return for the page
    image_counter,    \* images saved so far
    html_pc,          \* position inside the loop body
    tables_data,      \* accepted tables of the page
    images_data,      \* positioned images of the page
    text_blocks_data, \* free text blocks of the page
    all_content,      \* merged (and then sorted) page content
    html_content,     \* what the iteration has appended to the output
    slide,            \* pdf_to_ppt (converter.py 2175-2298): the shapes added to the slide
    \* ---- word_to_pdf, html_to_pdf, ppt_to_pdf: the temporary directory
    \*      (converter.py 145-445, 1144-1301, 1407-1650)
    pdf_handler,      \* which of the three functions runs
    doc_elements,     \* the document's elements and what the libraries do on them
    build_raises,     \* whether pdf.build(story) raises
    pdf_pc,           \* position inside the function
    element_index,    \* the element the loop is at
    temp_dir,         \* "none" | "exists" | "removed"
    story,            \* kinds of the flowables appended so far
    pdf_result,       \* "none" | "returns" | "raises"
    \* ---- ComprehensiveHTMLParser as fed by html_to_pdf (converter.py 828-1105)
    feed_input,       \* the events HTMLParser.feed delivers, in order
    feed_pos,         \* the event the feed is at
    feed_pc,          \* "feeding" | "parsed" | "raised"
    parser,           \* the parser object's fields
    row_heap,         \* the list objects current_row has been bound to
    table_heap,       \* the dict objects current_table has been bound to ('rows')
    \* ---- one table of word_to_pdf, excel_to_pdf, ppt_to_pdf or html_to_pdf
    \*      (converter.py 116-119, 330-419, 570-598, 636-796, 1107-1118, 1185-1238, 1398, 1552-1632)
    table_fn,         \* which of the four functions runs
    table_source,     \* what the function has read of the table and its document
    table_pc,         \* position inside the function
    pagesize,         \* the page size of the output document
    col_widths,       \* colWidths of the Table
    table_style,      \* the BACKGROUND commands of its TableStyle, in order
    \* ---- excel_to_pdf on a workbook (converter.py 566-800, converter_lite.py 145-190)
    workbook,         \* wb.worksheets
    active_sheet,     \* the position of wb.active among them
    excel_pc,         \* position inside the function
    excel_pagesize,   \* the page size of the output document
    sheet_idx,        \* sheets the loop has gone through
    excel_story,      \* what the sheets have added to the story, in order
    \* ---- pdf_to_images (converter.py 2306-2393)
    image_format,     \* the format argument
    is_single_file,   \* the output path names an image file, not a folder
    gs_pages,         \* pages Ghostscript renders, 0 when it fails
    folder,           \* the image files in the output folder
    images_pc,        \* position inside the function
    page_num,         \* the page the removal loop is at
    \* ---- word_to_pdf, the body loop (converter.py 146, 222-320, 427-449)
    word_body,        \* the paragraphs of the document body
    word_rels,        \* the relationships of the document part
    word_pc,          \* position inside the function
    word_idx,         \* the body element the loop is at
    word_image_counter, \* image_counter
    word_files,       \* the img_<n>.png files written to the temporary directory
    word_story        \* the flowables appended to the story, in order

mainVars == <<converter, argc, arg_type, input_exists, conversion_type,
              main_pc, stdout, calls, handler_result, exit_code>>

pageVars == <<page, image_counter, html_pc, tables_data, images_data,
              text_blocks_data, all_content, html_content, slide>>

tempVars == <<pdf_handler, doc_elements, build_raises, pdf_pc, element_index,
              temp_dir, story, pdf_result>>

parserVars == <<feed_input, feed_pos, feed_pc, parser, row_heap, table_heap>>

tableVars == <<table_fn, table_source, table_pc, pagesize, col_widths, table_style>>

workbookVars == <<workbook, active_sheet, excel_pc, excel_pagesize, sheet_idx, excel_story>>

imagesVars == <<image_format, is_single_file, gs_pages, folder, images_pc, page_num>>

wordVars == <<word_body, word_rels, word_pc, word_idx, word_image_counter, word_files,
              word_story>>

vars == <<mainVars, pageVars, tempVars, parserVars, tableVars, workbookVars, imagesVars,
          wordVars>>

----------------------------------------------------------------------------
(* Generic helpers *)

Range(s) == {s[i] : i \in 1..Len(s)}

RECURSIVE SeqMap(_, _)
SeqMap(Op(_), s) == IF s = <<>> THEN <<>> ELSE <<Op(Head(s))>> \o SeqMap(Op, Tail(s))

----------------------------------------------------------------------------
(* Characters and str.lower() *)

LowerLetters == <<"a","b","c","d","e","f","g","h","i","j","k","l","m","n","o","p","q","r","s","t","u","v","w","x","y","z">>
UpperLetters == <<"A","B","C","D","E","F","G","H","I","J","K","L","M","N","O","P","Q","R","S","T","U","V","W","X","Y","Z">>

\* str.lower() on one character: an upper-case letter becomes its lower-case
\* form, everything else ('-', lower-case letters) is unchanged
LowerChar(c) ==
    IF \E i \in 1..Len(UpperLetters) : UpperLetters[i] = c
    THEN LowerLetters[CHOOSE i \in 1..Len(UpperLetters) : UpperLetters[i] = c]
    ELSE c

UpperChar(c) ==
    IF \E i \in 1..Len(LowerLetters) : LowerLetters[i] = c
    THEN UpperLetters[CHOOSE i \in 1..Len(LowerLetters) : LowerLetters[i] = c]
    ELSE c

\* sys.argv[1].lower()
Lower(s) == [i \in 1..Len(s) |-> LowerChar(s[i])]

Upper(s) == [i \in 1..Len(s) |-> UpperChar(s[i])]

\* a mixed-case spelling: characters at odd positions in upper case
MixedCase(s) == [i \in 1..Len(s) |-> IF i % 2 = 1 THEN UpperChar(s[i]) ELSE s[i]]

----------------------------------------------------------------------------
(* Conversion-type tokens *)

\* the words the tokens are made of, as character sequences
W == [ pdf |-> <<"p","d","f">>, to |-> <<"-","t","o","-">>,
       word |-> <<"w","o","r","d">>, excel |-> <<"e","x","c","e","l">>,
       html |-> <<"h","t","m","l">>, ppt |-> <<"p","p","t">>,
       png |-> <<"p","n","g">>, jpeg |-> <<"j","p","e","g">>,
       jpg |-> <<"j","p","g">>, tiff |-> <<"t","i","f","f">>,
       tif |-> <<"t","i","f">>, images |-> <<"i","m","a","g","e","s">>,
       text |-> <<"t","e","x","t">> ]

\* the tokens: K.pdf_to_word is 'pdf-to-word'
K == [ pdf_to_word   |-> W.pdf \o W.to \o W.word,
       word_to_pdf   |-> W.word \o W.to \o W.pdf,
       pdf_to_excel  |-> W.pdf \o W.to \o W.excel,
       excel_to_pdf  |-> W.excel \o W.to \o W.pdf,
       html_to_pdf   |-> W.html \o W.to \o W.pdf,
       ppt_to_pdf    |-> W.ppt \o W.to \o W.pdf,
       pdf_to_html   |-> W.pdf \o W.to \o W.html,
       pdf_to_ppt    |-> W.pdf \o W.to \o W.ppt,
       pdf_to_png    |-> W.pdf \o W.to \o W.png,
       pdf_to_jpeg   |-> W.pdf \o W.to \o W.jpeg,
       pdf_to_jpg    |-> W.pdf \o W.to \o W.jpg,
       pdf_to_tiff   |-> W.pdf \o W.to \o W.tiff,
       pdf_to_tif    |-> W.pdf \o W.to \o W.tif,
       pdf_to_images |-> W.pdf \o W.to \o W.images,
       pdf_to_text   |-> W.pdf \o W.to \o W.text ]

\* CONVERSIONS of converter.py, in dictionary order: key and handler
CONVERSIONS_full ==
    << [key |-> K.pdf_to_word,   func |-> "pdf_to_word"],
       [key |-> K.word_to_pdf,   func |-> "word_to_pdf"],
       [key |-> K.pdf_to_excel,  func |-> "pdf_to_excel"],
       [key |-> K.excel_to_pdf,  func |-> "excel_to_pdf"],
       [key |-> K.html_to_pdf,   func |-> "html_to_pdf"],
       [key |-> K.ppt_to_pdf,    func |-> "ppt_to_pdf"],
       [key |-> K.pdf_to_html,   func |-> "pdf_to_html"],
       [key |-> K.pdf_to_ppt,    func |-> "pdf_to_ppt"],
       [key |-> K.pdf_to_png,    func |-> "pdf_to_png"],
       [key |-> K.pdf_to_jpeg,   func |-> "pdf_to_jpeg"],
       [key |-> K.pdf_to_jpg,    func |-> "pdf_to_jpeg"],
       [key |-> K.pdf_to_tiff,   func |-> "pdf_to_tiff"],
       [key |-> K.pdf_to_images, func |-> "pdf_to_images"] >>

\* CONVERSIONS of converter_lite.py
CONVERSIONS_lite ==
    << [key |-> K.pdf_to_word,   func |-> "pdf_to_word"],
       [key |-> K.word_to_pdf,   func |-> "word_to_pdf"],
       [key |-> K.pdf_to_excel,  func |-> "pdf_to_excel"],
       [key |-> K.excel_to_pdf,  func |-> "excel_to_pdf"],
       [key |-> K.html_to_pdf,   func |-> "html_to_pdf"],
       [key |-> K.ppt_to_pdf,    func |-> "ppt_to_pdf"],
       [key |-> K.pdf_to_html,   func |-> "pdf_to_html"],
       [key |-> K.pdf_to_ppt,    func |-> "pdf_to_ppt"] >>

CONVERSIONS(c) == IF c = "full" THEN CONVERSIONS_full ELSE CONVERSIONS_lite

\* CONVERSIONS.keys(), in order
ConversionKeys(c) == [i \in 1..Len(CONVERSIONS(c)) |-> CONVERSIONS(c)[i].key]

\* conversion_type in CONVERSIONS
IsKnownType(c, t) == \E i \in 1..Len(CONVERSIONS(c)) : CONVERSIONS(c)[i].key = t

\* CONVERSIONS[conversion_type]
ConverterFunc(c, t) ==
    CONVERSIONS(c)[CHOOSE i \in 1..Len(CONVERSIONS(c)) : CONVERSIONS(c)[i].key = t].func

\* the tokens section 6 of the specification lists as recognized
ListedTokens ==
    { K.pdf_to_word, K.word_to_pdf, K.pdf_to_excel, K.excel_to_pdf, K.html_to_pdf,
      K.ppt_to_pdf, K.pdf_to_html, K.pdf_to_ppt, K.pdf_to_png, K.pdf_to_jpeg,
      K.pdf_to_jpg, K.pdf_to_tiff, K.pdf_to_tif, K.pdf_to_images }

\* what a user may type as sys.argv[1]: every listed token and one unlisted
\* token, in lower, upper and mixed case, and the empty string
TypedTokens ==
    LET base == ListedTokens \cup {K.pdf_to_text}
    IN  base \cup {Upper(t) : t \in base} \cup {MixedCase(t) : t \in base} \cup {<<>>}

\* len(sys.argv) ranges over 1..MaxArgc; main needs exactly ExpectedArgc
MaxArgc == 5
ExpectedArgc == 4

----------------------------------------------------------------------------
(* main *)

\* printed lines
UsageLines(c) ==
    << <<"Usage">>, <<"Available conversions:">> >>
    \o [i \in 1..Len(ConversionKeys(c)) |-> <<"  - ", ConversionKeys(c)[i]>>]

NotFoundLines == << <<"ERROR: Input file not found">> >>

\* the mutant of UnknownTypeLines: the supported list is not printed
UnknownTypeLines_NoList(c, t) == << <<"ERROR: Unknown conversion type", t>> >>

UnknownTypeLines(c, t) ==
    << <<"ERROR: Unknown conversion type", t>>, <<"Available", ConversionKeys(c)>> >>

FailedLines == << <<"ERROR: Conversion failed">>, <<"traceback">> >>

\* the mutant of ConvertExit: the except branch exits like the success branch
ConvertExit_AlwaysZero(result) == 0

\* the exit code of the try block: sys.exit(0) after the handler returned,
\* sys.exit(1) from the except branch
ConvertExit(result) == IF result = "returns" THEN 0 ELSE 1

IdleMain ==
    /\ argc = ExpectedArgc
    /\ arg_type = <<>>
    /\ input_exists = FALSE
    /\ conversion_type = <<>>
    /\ main_pc = "idle"
    /\ stdout = <<>>
    /\ calls = <<>>
    /\ handler_result = "none"
    /\ exit_code = -1

InitMainVars ==
    /\ converter \in {"full", "lite"}
    /\ argc \in 1..MaxArgc
    /\ arg_type \in TypedTokens
    /\ input_exists \in BOOLEAN
    /\ conversion_type = <<>>
    /\ main_pc = "args"
    /\ stdout = <<>>
    /\ calls = <<>>
    /\ handler_result = "none"
    /\ exit_code = -1

\* if len(sys.argv) != 4: usage, sys.exit(1); else read the three arguments
MainCheckArgs ==
    /\ main_pc = "args"
    /\ IF argc # ExpectedArgc
       THEN /\ stdout' = stdout \o UsageLines(converter)
            /\ exit_code' = 1
            /\ main_pc' = "done"
            /\ UNCHANGED conversion_type
       ELSE /\ conversion_type' = Lower(arg_type)
            /\ main_pc' = "exists"
            /\ UNCHANGED <<stdout, exit_code>>
    /\ UNCHANGED <<converter, argc, arg_type, input_exists, calls, handler_result>>

\* the mutant of MainCheckInput: the existence check is skipped
MainCheckInput_Skipped ==
    /\ main_pc = "exists"
    /\ main_pc' = "lookup"
    /\ UNCHANGED <<stdout, exit_code>>
    /\ UNCHANGED <<converter, argc, arg_type, input_exists, conversion_type,
                   calls, handler_result>>

\* if not os.path.exists(input_file): report, sys.exit(1)
MainCheckInput ==
    /\ main_pc = "exists"
    /\ IF ~input_exists
       THEN /\ stdout' = stdout \o NotFoundLines
            /\ exit_code' = 1
            /\ main_pc' = "done"
       ELSE /\ main_pc' = "lookup"
            /\ UNCHANGED <<stdout, exit_code>>
    /\ UNCHANGED <<converter, argc, arg_type, input_exists, conversion_type,
                   calls, handler_result>>

\* if conversion_type not in CONVERSIONS: report with the list, sys.exit(1)
MainLookup ==
    /\ main_pc = "lookup"
    /\ IF ~IsKnownType(converter, conversion_type)
       THEN /\ stdout' = stdout \o UnknownTypeLines(converter, conversion_type)
            /\ exit_code' = 1
            /\ main_pc' = "done"
       ELSE /\ main_pc' = "convert"
            /\ UNCHANGED <<stdout, exit_code>>
    /\ UNCHANGED <<converter, argc, arg_type, input_exists, conversion_type,
                   calls, handler_result>>

\* try: converter_func(input_file, output_file); sys.exit(0)
\* except Exception: report, sys.exit(1).  Whether the handler raises is
\* decided by the handler and its libraries.
MainConvert ==
    /\ main_pc = "convert"
    /\ \E result \in {"returns", "raises"} :
          /\ calls' = Append(calls, ConverterFunc(converter, conversion_type))
          /\ handler_result' = result
          /\ stdout' = IF result = "returns" THEN stdout ELSE stdout \o FailedLines
          /\ exit_code' = ConvertExit(result)
    /\ main_pc' = "done"
    /\ UNCHANGED <<converter, argc, arg_type, input_exists, conversion_type>>

----------------------------------------------------------------------------
(* Claims about main *)

ThreeArguments == argc = ExpectedArgc

TypeIsKnown == IsKnownType(converter, Lower(arg_type))

HasLine(first) == \E j \in 1..Len(stdout) : stdout[j][1] = first

\* C1: a run of main with three arguments exits 0 exactly when the selected
\* handler was called and returned without raising, exits 1 when the input
\* file is missing, the type is unknown or the handler raised, and produces
\* no other exit code.
C1_ExitCodes ==
    /\ exit_code \in {-1, 0, 1}
    /\ (main_pc = "done") <=> (exit_code # -1)
    /\ (ThreeArguments /\ main_pc = "done") =>
          /\ (exit_code = 0) <=>
                (/\ handler_result = "returns"
                 /\ calls = <<ConverterFunc(converter, Lower(arg_type))>>)
          /\ (~input_exists \/ ~TypeIsKnown \/ handler_result = "raises")
                => exit_code = 1

C1_Witness ==
    /\ ThreeArguments /\ main_pc = "done"
    /\ handler_result = "returns" /\ exit_code = 0

\* C2: when the input path does not exist, main reports the missing input and
\* exits nonzero without invoking any handler, whatever the type token; the
\* type check and the handler call are reached only after the existence check
\* has passed.
C2_MissingInputFirst ==
    /\ (ThreeArguments /\ ~input_exists) =>
          /\ calls = <<>>
          /\ main_pc \notin {"lookup", "convert"}
          /\ ~HasLine("ERROR: Unknown conversion type")
          /\ main_pc = "done" =>
                (HasLine("ERROR: Input file not found") /\ exit_code \notin {-1, 0})
    /\ main_pc \in {"lookup", "convert"} => input_exists

C2_Witness ==
    /\ ThreeArguments /\ ~input_exists /\ ~TypeIsKnown
    /\ main_pc = "done" /\ exit_code = 1

\* C3: in converter.py every token the specification lists, in any mix of
\* upper and lower case, is dispatched to a handler and not reported unknown.
C3_ListedTokensDispatched ==
    (/\ converter = "full" /\ ThreeArguments /\ input_exists
     /\ Lower(arg_type) \in ListedTokens /\ main_pc = "done")
    => (Len(calls) = 1 /\ ~HasLine("ERROR: Unknown conversion type"))

\* C4: with an existing input and a type token outside the supported set main
\* prints an error that lists every supported conversion type, exits 1 and
\* invokes no handler.
C4_UnknownTypeReported ==
    (ThreeArguments /\ input_exists /\ ~TypeIsKnown /\ main_pc = "done") =>
        /\ exit_code = 1
        /\ calls = <<>>
        /\ HasLine("ERROR: Unknown conversion type")
        /\ \E j \in 1..Len(stdout) :
              /\ stdout[j][1] = "Available"
              /\ \A i \in 1..Len(CONVERSIONS(converter)) :
                    CONVERSIONS(converter)[i].key \in Range(stdout[j][2])

C4_Witness ==
    /\ ThreeArguments /\ input_exists /\ main_pc = "done"
    /\ converter = "lite" /\ arg_type = Upper(K.pdf_to_png)
    /\ exit_code = 1

----------------------------------------------------------------------------
(* Strings: a Python string is a sequence of one-character strings *)

Whitespace == {" "}
Digits == {"0","1","2","3","4","5","6","7","8","9"}

RECURSIVE LStripSet(_, _)
\* str.lstrip(chars)
LStripSet(s, cs) == IF s # <<>> /\ Head(s) \in cs THEN LStripSet(Tail(s), cs) ELSE s

RECURSIVE RStripSet(_, _)
\* str.rstrip(chars)
RStripSet(s, cs) ==
    IF s # <<>> /\ s[Len(s)] \in cs THEN RStripSet(SubSeq(s, 1, Len(s) - 1), cs) ELSE s

\* str.strip()
Strip(s) == RStripSet(LStripSet(s, Whitespace), Whitespace)

\* sub in s
Contains(s, sub) ==
    \E i \in 1..(Len(s) - Len(sub) + 1) : SubSeq(s, i, i + Len(sub) - 1) = sub

\* s[:n]
Prefix(s, n) == SubSeq(s, 1, IF Len(s) < n THEN Len(s) ELSE n)

RECURSIVE Flatten(_)
Flatten(ss) == IF ss = <<>> THEN <<>> ELSE Head(ss) \o Flatten(Tail(ss))

\* html.escape on one character; the result is the entity as one string
EscapeChar(c) ==
    CASE c = "&" -> "&amp;"
      [] c = "<" -> "&lt;"
      [] c = ">" -> "&gt;"
      [] c = "\"" -> "&quot;"
      [] c = "'" -> "&#x27;"
      [] OTHER -> c

\* html.escape(text): a sequence of characters and entities
Escape(s) == [i \in 1..Len(s) |-> EscapeChar(s[i])]

\* the characters of one element of an escaped text
EntityChars(e) ==
    CASE e = "&amp;" -> <<"&","a","m","p",";">>
      [] e = "&lt;" -> <<"&","l","t",";">>
      [] e = "&gt;" -> <<"&","g","t",";">>
      [] e = "&quot;" -> <<"&","q","u","o","t",";">>
      [] e = "&#x27;" -> <<"&","#","x","2","7",";">>
      [] OTHER -> <<e>>

EscapedChars(es) == Flatten([i \in 1..Len(es) |-> EntityChars(es[i])])

----------------------------------------------------------------------------
(* pdf_to_html of converter.py: the page input *)

\* Coordinates are integers in half points; a box is <<x0, y0, x1, y1>> with
\* the origin at the top left.  NoBox stands for a missing bounding box.
NoBox == <<>>

\* a table cell as pdfplumber returns it: None or a string
CellNone == [none |-> TRUE, text |-> <<>>]
CellStr(t) == [none |-> FALSE, text |-> t]

\* cell and str(cell).strip()
IsFilledCell(cell) == ~cell.none /\ cell.text # <<>> /\ Strip(cell.text) # <<>>

\* str(cell).strip() if cell else ''
CellText(cell) == IF ~cell.none /\ cell.text # <<>> THEN Strip(cell.text) ELSE <<>>

RECURSIVE SumSeq(_)
SumSeq(ns) == IF ns = <<>> THEN 0 ELSE Head(ns) + SumSeq(Tail(ns))

\* total_count: the cells of all rows
TotalCount(data) == SumSeq([r \in 1..Len(data) |-> Len(data[r])])

\* filled_count: the cells that are neither None nor blank
FilledCount(data) ==
    SumSeq([r \in 1..Len(data) |->
              Cardinality({c \in 1..Len(data[r]) : IsFilledCell(data[r][c])})])

MinRows == 2
MinCells == 4
\* the threshold 0.3 as the fraction FillNum / FillDen
FillNum == 3
FillDen == 10

\* the mutant of IsValidTable: the fill threshold excludes exactly 30%
IsValidTable_Strict(data) ==
    /\ Len(data) >= MinRows
    /\ ~(TotalCount(data) < MinCells
         \/ FillDen * FilledCount(data) <= FillNum * TotalCount(data))

\* the validation of an extracted table: kept unless it is empty or has fewer
\* than 2 rows, or has fewer than 4 cells or filled_count / total_count < 0.3
IsValidTable(data) ==
    /\ Len(data) >= MinRows
    /\ ~(TotalCount(data) < MinCells
         \/ FillDen * FilledCount(data) < FillNum * TotalCount(data))

\* the mutant of Overlaps: boxes that share an edge count as overlapping
Overlaps_Touching(b, t) ==
    /\ b[1] <= t[3] /\ b[3] >= t[1]
    /\ b[2] <= t[4] /\ b[4] >= t[2]

\* the overlap test of a text block's box b with a table's box t
Overlaps(b, t) ==
    /\ b[1] < t[3] /\ b[3] > t[1]
    /\ b[2] < t[4] /\ b[4] > t[2]

\* is_in_table
IsInTable(b, tables) == \E i \in 1..Len(tables) : Overlaps(b, tables[i].bbox)

----------------------------------------------------------------------------
(* pdf_to_html of converter.py, step 3: one text block to HTML *)

\* The list glyphs of line 2013.  A non-ASCII glyph is written by its name
\* and stands for one character: BULLET is U+2022, BLACKCIRCLE U+25CF,
\* WHITECIRCLE U+25CB, SMALLSQUARE U+25AA, DIAMOND U+25C6.
BulletGlyphs == {"BULLET", "-", "*", "BLACKCIRCLE", "WHITECIRCLE", "SMALLSQUARE", "DIAMOND"}

H1Size == 20
H2Size == 16
H3Size == 14
DefaultSize == 12

\* the tag chosen from the span's size
SizeTag(size) ==
    IF size > H1Size THEN "h1"
    ELSE IF size > H2Size THEN "h2"
    ELSE IF size > H3Size THEN "h3"
    ELSE "span"

\* the colour integer as (r, g, b)
ColorRGB(color) == << (color \div 65536) % 256, (color \div 256) % 256, color % 256 >>

\* "bold" in font / "italic" in font or "oblique" in font, font lower-cased
FontIsBold(font) == Contains(Lower(font), <<"b","o","l","d">>)
FontIsItalic(font) ==
    \/ Contains(Lower(font), <<"i","t","a","l","i","c">>)
    \/ Contains(Lower(font), <<"o","b","l","i","q","u","e">>)

\* One emitted element of a line: <tag style>text</tag>.  font_size is 0 and
\* color is <<>> when the style attribute has no such part; bold and italic
\* say whether the text is wrapped in <strong> and <em>.
Piece(tag, font_size, color, text, bold, italic) ==
    [tag |-> tag, font_size |-> font_size, color |-> color, text |-> text,
     bold |-> bold, italic |-> italic]

\* text.startswith(('BULLET', '-', '*', ...))
StartsWithBullet(text) == text # <<>> /\ Head(text) \in BulletGlyphs

\* len(text) > 0 and text[0].isdigit() and '.' in text[:5]
LooksNumbered(text) ==
    /\ text # <<>>
    /\ Head(text) \in Digits
    /\ \E i \in 1..Len(Prefix(text, 5)) : text[i] = "."

\* '.'.join(text.split('.')[1:]).strip(): what follows the first '.'
AfterFirstDot(text) ==
    LET i == CHOOSE j \in 1..Len(text) :
                 text[j] = "." /\ \A k \in 1..(j - 1) : text[k] # "."
    IN  Strip(SubSeq(text, i + 1, Len(text)))

\* the <li> of a bullet line: text_escaped.lstrip(glyphs and space), where
\* text_escaped already carries its <strong>/<em> wrappers, so that nothing
\* is stripped from a wrapped text (it starts with '<')
BulletItem(text, bold, italic) ==
    IF bold \/ italic
    THEN Piece("li", 0, <<>>, Escape(text), bold, italic)
    ELSE Piece("li", 0, <<>>, LStripSet(Escape(text), BulletGlyphs \cup {" "}), FALSE, FALSE)

\* the <li> of a numbered line
NumberedItem(text) == Piece("li", 0, <<>>, Escape(AfterFirstDot(text)), FALSE, FALSE)

\* the element of an ordinary span
SpanPiece(span, text) ==
    Piece(SizeTag(span.size),
          IF span.size # DefaultSize THEN span.size ELSE 0,
          IF span.color # 0 THEN ColorRGB(span.color) ELSE <<>>,
          Escape(text), FontIsBold(span.font), FontIsItalic(span.font))

RECURSIVE LineHtml(_, _)
\* the loop over the spans of one line (lines 1969-2025): line_html so far is
\* acc; a list item replaces it and ends the loop, a heading replaces it, an
\* ordinary span is appended
LineHtml(spans, acc) ==
    IF spans = <<>> THEN acc
    ELSE LET span == Head(spans)
             text == Strip(span.text)
         IN  IF text = <<>> THEN LineHtml(Tail(spans), acc)
             ELSE IF StartsWithBullet(text)
                  THEN <<BulletItem(text, FontIsBold(span.font), FontIsItalic(span.font))>>
             ELSE IF LooksNumbered(text)
                  THEN <<NumberedItem(text)>>
             ELSE IF SizeTag(span.size) = "span"
                  THEN LineHtml(Tail(spans), Append(acc, SpanPiece(span, text)))
             ELSE LineHtml(Tail(spans), <<SpanPiece(span, text)>>)

\* block_html: the non-empty line_html of the block's lines, in order
BlockHtml(block) ==
    SelectSeq([i \in 1..Len(block.lines) |-> LineHtml(block.lines[i].spans, <<>>)],
              LAMBDA l : l # <<>>)

\* the characters of an element's content, between <li> and </li>
ContentChars(piece) ==
    (IF piece.italic THEN <<"<","e","m",">">> ELSE <<>>)
    \o (IF piece.bold THEN <<"<","s","t","r","o","n","g",">">> ELSE <<>>)
    \o EscapedChars(piece.text)
    \o (IF piece.bold THEN <<"<","/","s","t","r","o","n","g",">">> ELSE <<>>)
    \o (IF piece.italic THEN <<"<","/","e","m",">">> ELSE <<>>)

AllPieces(block_html) == Flatten(block_html)

ListItems(block_html) == SelectSeq(AllPieces(block_html), LAMBDA q : q.tag = "li")

\* the container of a text block in step 5 (lines 2088-2104): "ol", "ul",
\* "none" for a block with a heading, "p" otherwise.  first_li[:10] is
\* '<li>' and the first six characters of the first item.
TextWrapper(block_html) ==
    LET items == ListItems(block_html)
    IN  IF items # <<>>
        THEN IF Len(items) > 1
             THEN IF \E i \in 1..Len(Prefix(ContentChars(items[1]), 6)) :
                          ContentChars(items[1])[i] \in Digits
                  THEN "ol" ELSE "ul"
             ELSE "ul"
        ELSE IF \E i \in 1..Len(AllPieces(block_html)) :
                    AllPieces(block_html)[i].tag \in {"h1", "h2", "h3"}
        THEN "none"
        ELSE "p"

----------------------------------------------------------------------------
(* pdf_to_html of converter.py: steps 1 to 5 of the page loop *)

Indices(n) == [i \in 1..n |-> i]

\* Step 1 (lines 1872-1902): the candidates of find_tables that pass the
\* validation, in order.  src is the candidate's index on the page; it is not
\* in the code and only names the element in the properties.
ExtractTables(candidates) ==
    LET kept == SelectSeq(Indices(Len(candidates)),
                          LAMBDA i : IsValidTable(candidates[i].data))
    IN  [k \in 1..Len(kept) |->
            [bbox |-> candidates[kept[k]].bbox,
             data |-> candidates[kept[k]].data,
             y_position |-> candidates[kept[k]].bbox[2],
             src |-> kept[k]]]

RECURSIVE ExtractImages(_, _, _, _)
\* Step 2 (lines 1904-1937): image idx and the following ones; an image whose
\* extraction raises is skipped by the inner except, an extracted image is
\* counted and saved, and it is positioned only if get_image_rects returns a
\* rectangle.  Returns the counter and the list.
ExtractImages(images, idx, counter, acc) ==
    IF idx > Len(images) THEN [counter |-> counter, data |-> acc]
    ELSE LET img == images[idx] IN
         IF ~img.extract_ok THEN ExtractImages(images, idx + 1, counter, acc)
         ELSE IF img.rects = <<>> THEN ExtractImages(images, idx + 1, counter + 1, acc)
         ELSE ExtractImages(images, idx + 1, counter + 1,
                  Append(acc, [bbox |-> img.rects[1],
                               path |-> counter + 1,
                               y_position |-> img.rects[1][2],
                               counter |-> counter + 1,
                               src |-> idx]))

\* a block of get_text("dict") becomes free text (lines 1943-2035): a text
\* block with a bounding box that overlaps no accepted table and has a
\* non-empty block_html
IsFreeText(block, tables) ==
    /\ block.type = 0
    /\ block.bbox # NoBox
    /\ ~IsInTable(block.bbox, tables)
    /\ BlockHtml(block) # <<>>

\* Step 3: text_blocks_data
ExtractText(blocks, tables) ==
    LET kept == SelectSeq(Indices(Len(blocks)), LAMBDA i : IsFreeText(blocks[i], tables))
    IN  [k \in 1..Len(kept) |->
            [html |-> BlockHtml(blocks[kept[k]]),
             y_position |-> blocks[kept[k]].bbox[2],
             bbox |-> blocks[kept[k]].bbox,
             src |-> kept[k]]]

\* the table as HTML (lines 2050-2066): the header cells and the body rows
TableHtml(data) ==
    [header |-> [c \in 1..Len(data[1]) |-> Escape(CellText(data[1][c]))],
     body |-> [r \in 1..(Len(data) - 1) |->
                 [c \in 1..Len(data[r + 1]) |-> Escape(CellText(data[r + 1][c]))]]]

TextItems(texts) ==
    [i \in 1..Len(texts) |->
        [type |-> "text", y_position |-> texts[i].y_position, src |-> texts[i].src,
         html |-> texts[i].html]]

TableItems(tables) ==
    [i \in 1..Len(tables) |->
        [type |-> "table", y_position |-> tables[i].y_position, src |-> tables[i].src,
         html |-> TableHtml(tables[i].data)]]

ImageItems(images) ==
    [i \in 1..Len(images) |->
        [type |-> "image", y_position |-> images[i].y_position, src |-> images[i].src,
         html |-> [path |-> images[i].path, counter |-> images[i].counter]]]

\* the mutant of MergeContent: tables and images are appended before the text
MergeContent_TextLast(texts, tables, images) ==
    TableItems(tables) \o ImageItems(images) \o TextItems(texts)

\* Step 4, the appends (lines 2038-2081): text blocks, then tables, then images
MergeContent(texts, tables, images) ==
    TextItems(texts) \o TableItems(tables) \o ImageItems(images)

RECURSIVE InsertByY(_, _)
\* x goes after every element whose key is not greater: the sort is stable
InsertByY(sorted, x) ==
    IF sorted = <<>> THEN <<x>>
    ELSE IF Head(sorted).y_position <= x.y_position
         THEN <<Head(sorted)>> \o InsertByY(Tail(sorted), x)
         ELSE <<x>> \o sorted

RECURSIVE SortFrom(_, _)
SortFrom(items, sorted) ==
    IF items = <<>> THEN sorted ELSE SortFrom(Tail(items), InsertByY(sorted, Head(items)))

\* the mutant of SortByY: the content is left in the order of the appends
SortByY_Unsorted(items) == items

\* all_content.sort(key=lambda x: x['y_position']) (line 2084): ascending
\* and stable
SortByY(items) == SortFrom(items, <<>>)

\* Step 5 (lines 2087-2107): one item as appended to html_content
RenderItem(item) ==
    [type |-> item.type, src |-> item.src,
     wrapper |-> IF item.type = "text" THEN TextWrapper(item.html) ELSE "none",
     html |-> item.html]

IdlePage ==
    /\ page = <<>>
    /\ image_counter = 0
    /\ html_pc = "idle"
    /\ tables_data = <<>>
    /\ images_data = <<>>
    /\ text_blocks_data = <<>>
    /\ all_content = <<>>
    /\ html_content = <<>>
    /\ slide = <<>>

HtmlExtractTables ==
    /\ html_pc = "tables"
    /\ tables_data' = ExtractTables(page.tables)
    /\ html_pc' = "images"
    /\ UNCHANGED <<slide, page, image_counter, images_data, text_blocks_data, all_content,
                   html_content>>

HtmlExtractImages ==
    /\ html_pc = "images"
    /\ LET got == ExtractImages(page.images, 1, image_counter, <<>>)
       IN  /\ images_data' = got.data
           /\ image_counter' = got.counter
    /\ html_pc' = "text"
    /\ UNCHANGED <<slide, page, tables_data, text_blocks_data, all_content, html_content>>

HtmlExtractText ==
    /\ html_pc = "text"
    /\ text_blocks_data' = ExtractText(page.blocks, tables_data)
    /\ html_pc' = "merge"
    /\ UNCHANGED <<slide, page, image_counter, tables_data, images_data, all_content,
                   html_content>>

HtmlMergeSort ==
    /\ html_pc = "merge"
    /\ all_content' = SortByY(MergeContent(text_blocks_data, tables_data, images_data))
    /\ html_pc' = "render"
    /\ UNCHANGED <<slide, page, image_counter, tables_data, images_data, text_blocks_data,
                   html_content>>

HtmlRender ==
    /\ html_pc = "render"
    /\ html_content' = html_content \o [i \in 1..Len(all_content) |-> RenderItem(all_content[i])]
    /\ html_pc' = "done"
    /\ UNCHANGED <<slide, page, image_counter, tables_data, images_data, text_blocks_data,
                   all_content>>

----------------------------------------------------------------------------
(* pdf_to_html of converter_lite.py: the page loop (lines 429-518) *)

\* round(v) for v given in half points: Python rounds a half to the even integer
PyRound(v2) ==
    IF v2 % 2 = 0 THEN v2 \div 2
    ELSE LET k == (v2 - 1) \div 2 IN IF k % 2 = 0 THEN k ELSE k + 1

\* page.chars: every character of the page's text with its position and
\* font.  block names the text block the character belongs to; it is not
\* in the code and only names the text in the properties.
SpanChars(span, top, b) ==
    [i \in 1..Len(span.text) |->
        [text |-> span.text[i], top |-> top, x0 |-> span.x0 + (i - 1),
         size |-> span.size, fontname |-> span.font, block |-> b]]

LineChars(line, b) ==
    Flatten([j \in 1..Len(line.spans) |-> SpanChars(line.spans[j], line.top, b)])

BlockChars(block, b) ==
    IF block.type # 0 THEN <<>>
    ELSE Flatten([l \in 1..Len(block.lines) |-> LineChars(block.lines[l], b)])

PageChars(blocks) == Flatten([b \in 1..Len(blocks) |-> BlockChars(blocks[b], b)])

RECURSIVE SortedSeq(_)
\* sorted(keys)
SortedSeq(S) ==
    IF S = {} THEN <<>>
    ELSE LET m == CHOOSE x \in S : \A y \in S : x <= y
         IN  <<m>> \o SortedSeq(S \ {m})

RECURSIVE InsertByX0(_, _)
InsertByX0(sorted, c) ==
    IF sorted = <<>> THEN <<c>>
    ELSE IF Head(sorted).x0 <= c.x0
         THEN <<Head(sorted)>> \o InsertByX0(Tail(sorted), c)
         ELSE <<c>> \o sorted

RECURSIVE SortByX0From(_, _)
SortByX0From(cs, sorted) ==
    IF cs = <<>> THEN sorted ELSE SortByX0From(Tail(cs), InsertByX0(sorted, Head(cs)))

\* sorted(lines[y], key=lambda c: c['x0'])
SortByX0(cs) == SortByX0From(cs, <<>>)

LiteBoldSize == 14
LiteXLargeSize == 16

\* style_classes of one character (lines 465-475); <<>> is None
LiteStyle(c) ==
    (IF FontIsBold(c.fontname) \/ c.size > LiteBoldSize THEN <<"bold">> ELSE <<>>)
    \o (IF FontIsItalic(c.fontname) THEN <<"italic">> ELSE <<>>)
    \o (IF c.size > LiteBoldSize /\ c.size <= LiteXLargeSize THEN <<"large">>
        ELSE IF c.size > LiteXLargeSize THEN <<"xlarge">> ELSE <<>>)

LiteRun(style, text) == [style |-> style, text |-> text]

RECURSIVE LiteRuns(_, _, _, _)
\* the loop over the characters of a line (lines 459-496)
LiteRuns(cs, current_text, current_style, line_html) ==
    IF cs = <<>>
    THEN IF current_text # <<>>
         THEN Append(line_html, LiteRun(current_style, current_text))
         ELSE line_html
    ELSE LET style == LiteStyle(Head(cs))
             text == EscapeChar(Head(cs).text)
         IN  IF style # current_style
             THEN LiteRuns(Tail(cs), <<text>>, style,
                           IF current_text # <<>>
                           THEN Append(line_html, LiteRun(current_style, current_text))
                           ELSE line_html)
             ELSE LiteRuns(Tail(cs), Append(current_text, text), current_style, line_html)

\* one line of the page: a heading when the average size exceeds 16
LiteLine(y, chars) ==
    LET line_chars == SortByX0(SelectSeq(chars, LAMBDA c : PyRound(c.top) = y))
        sizes == [i \in 1..Len(line_chars) |-> line_chars[i].size]
    IN  [type |-> "text",
         kind |-> IF SumSeq(sizes) > LiteXLargeSize * Len(line_chars)
                  THEN "heading" ELSE "p",
         y |-> y,
         runs |-> LiteRuns(line_chars, <<>>, <<>>, <<>>),
         srcs |-> {line_chars[i].block : i \in 1..Len(line_chars)}]

\* the lines of the page in ascending order of the rounded top
LiteText(chars) ==
    LET keys == SortedSeq({PyRound(chars[i].top) : i \in 1..Len(chars)})
    IN  [k \in 1..Len(keys) |-> LiteLine(keys[k], chars)]

\* every table of page.extract_tables(), unvalidated (lines 505-516)
LiteTables(candidates) ==
    [i \in 1..Len(candidates) |->
        [type |-> "table", src |-> i,
         rows |-> [r \in 1..Len(candidates[i].data) |->
                     [c \in 1..Len(candidates[i].data[r]) |->
                        Escape(IF candidates[i].data[r][c].none THEN <<>>
                               ELSE candidates[i].data[r][c].text)]]]]

LiteExtractText ==
    /\ html_pc = "lite_text"
    /\ html_content' = html_content \o LiteText(PageChars(page.blocks))
    /\ html_pc' = "lite_tables"
    /\ UNCHANGED <<slide, page, image_counter, tables_data, images_data, text_blocks_data,
                   all_content>>

LiteExtractTables ==
    /\ html_pc = "lite_tables"
    /\ html_content' = html_content \o LiteTables(page.tables)
    /\ html_pc' = "done"
    /\ UNCHANGED <<slide, page, image_counter, tables_data, images_data, text_blocks_data,
                   all_content>>

----------------------------------------------------------------------------
(* pdf_to_ppt of converter.py: one page onto its slide (lines 2175-2298) *)

PptMaxRows == 30
PptMaxCols == 15

RECURSIVE PptPictures(_, _, _)
\* the image loop (lines 2176-2199): one picture per rectangle of each image;
\* extract_image is not guarded inside the loop, so an image that cannot be
\* extracted ends the loop
PptPictures(images, idx, acc) ==
    IF idx > Len(images) THEN acc
    ELSE IF ~images[idx].extract_ok THEN acc
    ELSE PptPictures(images, idx + 1,
             acc \o [k \in 1..Len(images[idx].rects) |->
                       [type |-> "picture", src |-> idx, rect |-> images[idx].rects[k]]])

\* the run made from one span (lines 2233-2255)
PptRun(span) ==
    [text |-> span.text,
     size |-> span.size,
     color |-> IF span.color # 0 THEN ColorRGB(span.color) ELSE <<>>,
     bold |-> FontIsBold(span.font),
     italic |-> FontIsItalic(span.font)]

\* the runs of one line: the spans that are not blank
PptParagraph(line) ==
    LET kept == SelectSeq(line.spans, LAMBDA sp : Strip(sp.text) # <<>>)
    IN  [k \in 1..Len(kept) |-> PptRun(kept[k])]

\* one textbox per text block with a bounding box (lines 2204-2257)
PptTextboxes(blocks) ==
    LET kept == SelectSeq(Indices(Len(blocks)),
                          LAMBDA b : blocks[b].type = 0 /\ blocks[b].bbox # NoBox)
    IN  [k \in 1..Len(kept) |->
            [type |-> "textbox", src |-> kept[k],
             paragraphs |-> [l \in 1..Len(blocks[kept[k]].lines) |->
                               PptParagraph(blocks[kept[k]].lines[l])]]]

\* str(cell_value) if cell_value else ''
PptCellText(cell) == IF cell.none THEN <<>> ELSE cell.text

\* the grid of add_table(rows, cols) filled from table_data[:rows] and
\* row[:cols] (lines 2263-2281); a cell that no value is written to is empty
PptGrid(data) ==
    LET rows == IF Len(data) < PptMaxRows THEN Len(data) ELSE PptMaxRows
        cols == IF Len(data[1]) < PptMaxCols THEN Len(data[1]) ELSE PptMaxCols
    IN  [i \in 1..rows |->
            [j \in 1..cols |-> IF j <= Len(data[i]) THEN PptCellText(data[i][j]) ELSE <<>>]]

\* one table shape per table of extract_tables() that has a first cell
PptTables(candidates) ==
    LET kept == SelectSeq(Indices(Len(candidates)),
                          LAMBDA t : Len(candidates[t].data) > 0
                                     /\ Len(candidates[t].data[1]) > 0)
    IN  [k \in 1..Len(kept) |->
            [type |-> "table", src |-> kept[k], rows |-> PptGrid(candidates[kept[k]].data)]]

PptAddImages ==
    /\ html_pc = "ppt_images"
    /\ slide' = slide \o PptPictures(page.images, 1, <<>>)
    /\ html_pc' = "ppt_text"
    /\ UNCHANGED <<page, image_counter, tables_data, images_data, text_blocks_data,
                   all_content, html_content>>

PptAddText ==
    /\ html_pc = "ppt_text"
    /\ slide' = slide \o PptTextboxes(page.blocks)
    /\ html_pc' = "ppt_tables"
    /\ UNCHANGED <<page, image_counter, tables_data, images_data, text_blocks_data,
                   all_content, html_content>>

PptAddTables ==
    /\ html_pc = "ppt_tables"
    /\ slide' = slide \o PptTables(page.tables)
    /\ html_pc' = "ppt_done"
    /\ UNCHANGED <<page, image_counter, tables_data, images_data, text_blocks_data,
                   all_content, html_content>>

----------------------------------------------------------------------------
(* The pages pdf_to_html is run on *)

\* bounds of the page families
MaxCoord == 2      \* box corners of the geometry pages lie on 0..MaxCoord
MaxElems == 3      \* elements of an ordering page
MaxY == 1          \* top coordinates of an ordering page lie on 0..MaxY
MaxRows == 3       \* rows of a table candidate
MaxCols == 5       \* columns of a table candidate

F_Plain == <<"A","r","i","a","l">>

PlainSpan(text, x0) == [text |-> text, font |-> F_Plain, size |-> DefaultSize, color |-> 0, x0 |-> x0]

\* a text block of one line and one span
TextBlock(box, text) ==
    [type |-> 0, bbox |-> box,
     lines |-> << [top |-> box[2], spans |-> <<PlainSpan(text, box[1])>>] >>]

\* an image block of get_text("dict") (type 1) and a text block without bbox
ImageBlock(box) == [type |-> 1, bbox |-> box, lines |-> <<>>]
BoxlessBlock(text) ==
    [type |-> 0, bbox |-> NoBox, lines |-> << [top |-> 0, spans |-> <<PlainSpan(text, 0)>>] >>]

\* a grid of r rows and c columns whose first k cells, row by row, hold "x"
\* and whose other cells are `empty`
Grid(r, c, k, empty) ==
    [i \in 1..r |-> [j \in 1..c |-> IF (i - 1) * c + j <= k THEN CellStr(<<"x">>) ELSE empty]]

EmptyCells == {CellNone, CellStr(<<>>), CellStr(<<" ">>)}

TableDatas ==
    {Grid(r, c, k, e) : r \in 0..MaxRows, c \in 0..MaxCols, k \in 0..(MaxRows * MaxCols),
                        e \in EmptyCells}

GoodData == Grid(2, 2, 4, CellNone)

Candidate(box, data) == [bbox |-> box, data |-> data]

\* the boxes with corners on the grid and a positive area
Boxes ==
    {<<x0, y0, x1, y1>> : x0 \in 0..MaxCoord, y0 \in 0..MaxCoord,
                          x1 \in 0..MaxCoord, y1 \in 0..MaxCoord}
    \cap {b \in (0..MaxCoord) \X (0..MaxCoord) \X (0..MaxCoord) \X (0..MaxCoord) :
            b[1] < b[3] /\ b[2] < b[4]}

Page(tables, images, blocks) == [tables |-> tables, images |-> images, blocks |-> blocks]

\* geometry pages: one block, blank or not, against no, one or two accepted
\* tables, every box on the grid (the second table in the corner)
CornerBox == <<0, 0, 1, 1>>

GeometryBlocks ==
    {TextBlock(b, t) : b \in Boxes, t \in {<<"a">>, <<" ">>}}
    \cup {ImageBlock(b) : b \in Boxes}
    \cup {BoxlessBlock(<<"a">>)}

GeometryTables ==
    {<<>>}
    \cup {<<Candidate(b, GoodData)>> : b \in Boxes}
    \cup {<<Candidate(b, GoodData), Candidate(CornerBox, GoodData)>> : b \in Boxes}

GeometryPages == {Page(ts, <<>>, <<b>>) : ts \in GeometryTables, b \in GeometryBlocks}

\* scenario pages: a 2 x 2 table and five text blocks, each either on the
\* table's box or beside it (sharing an edge)
ScenarioInside == <<0, 0, 1, 1>>
ScenarioBeside == <<1, 0, 2, 1>>

ScenarioPages ==
    {Page(<<Candidate(ScenarioInside, GoodData)>>, <<>>,
          [i \in 1..(3 + 2) |-> TextBlock(f[i], <<"a">>)]) :
        f \in [1..(3 + 2) -> {ScenarioInside, ScenarioBeside}]}

\* ordering pages: up to MaxElems text blocks, tables and images that do not
\* overlap horizontally, each with its top on 0..MaxY
ElemKinds == {"text", "table", "image"}
Elems == [kind : ElemKinds, y : 0..MaxY]

OfKind(es, kind) == SelectSeq(es, LAMBDA e : e.kind = kind)

OrderingPage(es) ==
    LET ts == OfKind(es, "table")
        is == OfKind(es, "image")
        bs == OfKind(es, "text")
    IN  Page([i \in 1..Len(ts) |-> Candidate(<<0, ts[i].y, 1, ts[i].y + 1>>, GoodData)],
             [i \in 1..Len(is) |-> [extract_ok |-> TRUE,
                                    rects |-> << <<0, is[i].y, 2, is[i].y + 1>> >>]],
             [i \in 1..Len(bs) |-> TextBlock(<<1, bs[i].y, 2, bs[i].y + 1>>, <<"a">>)])

OrderingPages ==
    {OrderingPage(es) : es \in UNION {[1..n -> Elems] : n \in 0..MaxElems}}

\* validation pages: one candidate of any shape and filling, and a text
\* block on its box
ValidationBox == <<0, 0, 1, 1>>

ValidationPages ==
    {Page(<<Candidate(ValidationBox, d)>>, <<>>, <<TextBlock(ValidationBox, <<"a">>)>>) :
        d \in TableDatas}

\* style pages: lines of one or two spans and blocks of two lines, over
\* fonts, sizes around the thresholds and texts that do or do not look
\* like list items
F_Bold == <<"A","r","i","a","l","-","B","o","l","d","M","T">>
F_Italic == <<"T","i","m","e","s","-","I","t","a","l","i","c">>
F_BoldOblique == <<"H","e","l","v","-","B","o","l","d","O","b","l","i","q","u","e">>

StyleFonts == {F_Plain, F_Bold, F_Italic, F_BoldOblique}
StyleSizes == {12, 14, 15, 16, 17, 20, 21, 22}

T_Title == <<"T","i","t","l","e">>
T_Bullet == <<"BULLET"," ","I","t","e","m">>
T_Dash == <<"-"," ","I","t","e","m">>
T_Numbered == <<"1","."," ","O","n","e">>
T_Decimal == <<"1",".","5"," ","m","i","o">>
T_Time == <<"1","2"," ","a",".","m",".">>
T_Year == <<"2","0","2","4","x"," ","a",".">>

StyleTexts == {T_Title, T_Bullet, T_Dash, T_Numbered, T_Decimal, T_Time, T_Year}

StyleSpan(text, font, size, x0) ==
    [text |-> text, font |-> font, size |-> size, color |-> 0, x0 |-> x0]

StyleBox == <<0, 0, 2, 1>>

LinesBlock(lines) == [type |-> 0, bbox |-> StyleBox, lines |-> lines]

OneSpanPages ==
    {Page(<<>>, <<>>, <<LinesBlock(<< [top |-> 0, spans |-> <<StyleSpan(t, f, z, 0)>>] >>)>>) :
        t \in StyleTexts, f \in StyleFonts, z \in StyleSizes}

TwoSpanPages ==
    {Page(<<>>, <<>>,
          <<LinesBlock(<< [top |-> 0,
                           spans |-> <<StyleSpan(<<"a">>, F_Plain, z1, 0),
                                       StyleSpan(t, f, z2, 8)>>] >>)>>) :
        z1 \in {12, 22}, t \in StyleTexts, f \in {F_Plain, F_Bold}, z2 \in {12, 15, 22}}

TwoLinePages ==
    {Page(<<>>, <<>>,
          <<LinesBlock(<< [top |-> 0, spans |-> <<StyleSpan(t1, F_Plain, DefaultSize, 0)>>],
                          [top |-> 2, spans |-> <<StyleSpan(t2, F_Plain, DefaultSize, 0)>>] >>)>>) :
        t1 \in StyleTexts, t2 \in StyleTexts}

StylePages == OneSpanPages \cup TwoSpanPages \cup TwoLinePages

\* image pages: up to MaxElems images, each extractable or not, with no, one
\* or two rectangles
ImageRects == {<<>>, << <<0, 0, 1, 1>> >>, << <<0, 0, 1, 1>>, <<1, 1, 2, 2>> >>}

ImagePages ==
    {Page(<<>>, is, <<TextBlock(StyleBox, <<"a">>)>>) :
        is \in UNION {[1..n -> [extract_ok : BOOLEAN, rects : ImageRects]] : n \in 0..MaxElems}}

PagesOf(c) ==
    IF c = "full"
    THEN GeometryPages \cup ScenarioPages \cup OrderingPages \cup ValidationPages
         \cup StylePages \cup ImagePages
    ELSE ScenarioPages \cup ValidationPages \cup StylePages

\* the pages pdf_to_ppt is run on
PptPages == ScenarioPages \cup ValidationPages \cup StylePages \cup ImagePages

\* the function that runs: pdf_to_html of either program or pdf_to_ppt
InitPage ==
    /\ converter \in {"full", "lite"}
    /\ html_pc \in (IF converter = "full" THEN {"tables", "ppt_images"} ELSE {"lite_text"})
    /\ page \in (IF html_pc = "ppt_images" THEN PptPages ELSE PagesOf(converter))
    /\ image_counter = 0
    /\ tables_data = <<>>
    /\ images_data = <<>>
    /\ text_blocks_data = <<>>
    /\ all_content = <<>>
    /\ html_content = <<>>
    /\ slide = <<>>

----------------------------------------------------------------------------
(* Claims about pdf_to_html *)

PageDone == html_pc = "done"

Max2(a, b) == IF a > b THEN a ELSE b
Min2(a, b) == IF a < b THEN a ELSE b

\* the intersection of two boxes is a rectangle of positive area
PositiveIntersection(a, b) ==
    /\ Max2(a[1], b[1]) < Min2(a[3], b[3])
    /\ Max2(a[2], b[2]) < Min2(a[4], b[4])

\* text block b of the page has a span that is not blank
NonBlankTextBlock(b) ==
    /\ page.blocks[b].type = 0
    /\ page.blocks[b].bbox # NoBox
    /\ \E l \in 1..Len(page.blocks[b].lines) :
          \E k \in 1..Len(page.blocks[b].lines[l].spans) :
              Strip(page.blocks[b].lines[l].spans[k].text) # <<>>

\* the text of block b is in the output as free text
EmittedAsText(b) ==
    \E i \in 1..Len(html_content) :
        /\ html_content[i].type = "text"
        /\ IF converter = "full" THEN html_content[i].src = b
           ELSE b \in html_content[i].srcs

EmittedCount(type, src) ==
    Cardinality({i \in 1..Len(html_content) :
                    html_content[i].type = type /\ html_content[i].src = src})

OutputCount(type) ==
    Cardinality({i \in 1..Len(html_content) : html_content[i].type = type})

\* candidate t of the page is a table with at least 2 rows and at least
\* 30 percent of its cells filled (a table without cells has no such share)
TwoRowsThirtyPercent(t) ==
    /\ Len(page.tables[t].data) >= 2
    /\ TotalCount(page.tables[t].data) > 0
    /\ 10 * FilledCount(page.tables[t].data) >= 3 * TotalCount(page.tables[t].data)

\* ... and at least 4 cells
Accepted(t) == TwoRowsThirtyPercent(t) /\ TotalCount(page.tables[t].data) >= 4

\* the boxes of b and of some candidate among those `Acc` accepts intersect
OverlapsAccepted(b, Acc(_)) ==
    \E t \in 1..Len(page.tables) :
        Acc(t) /\ PositiveIntersection(page.blocks[b].bbox, page.tables[t].bbox)

SuppressionHolds ==
    /\ \A b \in 1..Len(page.blocks) :
          NonBlankTextBlock(b) => (EmittedAsText(b) <=> ~OverlapsAccepted(b, Accepted))
    /\ \A t \in 1..Len(page.tables) :
          Accepted(t) => EmittedCount("table", t) = 1

\* the page of scenario 2: three blocks on the table and two beside it
IsScenarioTwo ==
    /\ page \in ScenarioPages
    /\ Cardinality({b \in 1..Len(page.blocks) : page.blocks[b].bbox = ScenarioInside}) = 3

\* C7: in pdf_to_html (both converters), on every page a text block that is
\* not blank is emitted as free text exactly when its box has no
\* positive-area intersection with the box of an accepted table, and every
\* accepted table is emitted exactly once; three blocks on a table and two
\* beside it give one table and two text blocks.
C7_TableSuppression ==
    PageDone =>
        /\ SuppressionHolds
        /\ (IsScenarioTwo => (OutputCount("table") = 1 /\ OutputCount("text") = 2))

\* what C7 says, of converter.py alone (it holds there)
C7_InConverterPy == (converter = "full") => C7_TableSuppression

C7_Witness == PageDone /\ converter = "full" /\ IsScenarioTwo

\* the top coordinate of the element an output item was made from
ItemY0(item) ==
    CASE item.type = "text" -> page.blocks[item.src].bbox[2]
      [] item.type = "table" -> page.tables[item.src].bbox[2]
      [] item.type = "image" -> page.images[item.src].rects[1][2]

\* C8: in pdf_to_html of converter.py, of two emitted elements of a page the
\* one with the strictly smaller top coordinate y0 is rendered first.
C8_OrderedByY0 ==
    (PageDone /\ converter = "full") =>
        \A i, j \in 1..Len(html_content) :
            ItemY0(html_content[i]) < ItemY0(html_content[j]) => i < j

C8_Witness ==
    /\ PageDone /\ converter = "full"
    /\ \E i, j \in 1..Len(html_content) :
          /\ html_content[i].type = "image" /\ html_content[j].type = "text"
          /\ ItemY0(html_content[i]) < ItemY0(html_content[j])
    /\ \E i, j \in 1..Len(html_content) :
          /\ html_content[i].type = "table" /\ html_content[j].type = "text"
          /\ ItemY0(html_content[i]) < ItemY0(html_content[j])

SameY0(i, j) == ItemY0(html_content[i]) = ItemY0(html_content[j])

\* C9, as claimed: with equal y0 a table or image is rendered before a text
\* block, and elements of one kind keep their extraction order.
C9_TablesBeforeText ==
    (PageDone /\ converter = "full") =>
        \A i, j \in 1..Len(html_content) :
            SameY0(i, j) =>
                /\ (html_content[i].type = "text" /\ html_content[j].type # "text") => j < i
                /\ (html_content[i].type = html_content[j].type
                    /\ html_content[i].src < html_content[j].src) => i < j

KindRank(type) == CASE type = "text" -> 1 [] type = "table" -> 2 [] type = "image" -> 3

\* C9, amended: with equal y0 a text block is rendered before a table or
\* image and a table before an image, and elements of one kind keep their
\* extraction order.
C9_TextBeforeTables ==
    (PageDone /\ converter = "full") =>
        \A i, j \in 1..Len(html_content) :
            SameY0(i, j) =>
                /\ KindRank(html_content[i].type) < KindRank(html_content[j].type) => i < j
                /\ (html_content[i].type = html_content[j].type
                    /\ html_content[i].src < html_content[j].src) => i < j

C9_Witness ==
    /\ PageDone /\ converter = "full"
    /\ \E i, j \in 1..Len(html_content) :
          /\ i < j /\ SameY0(i, j)
          /\ html_content[i].type = "text" /\ html_content[j].type = "table"
    /\ \E i, j \in 1..Len(html_content) :
          /\ i < j /\ SameY0(i, j)
          /\ html_content[i].type = "text" /\ html_content[j].type = "text"

\* what acceptance by `Acc` means for the output of converter.py: exactly
\* the accepted candidates are emitted as tables, and exactly the text blocks
\* on an accepted candidate are suppressed
AcceptanceIs(Acc(_)) ==
    (PageDone /\ converter = "full") =>
        /\ \A t \in 1..Len(page.tables) :
              EmittedCount("table", t) = (IF Acc(t) THEN 1 ELSE 0)
        /\ \A b \in 1..Len(page.blocks) :
              NonBlankTextBlock(b) => (EmittedAsText(b) <=> ~OverlapsAccepted(b, Acc))

\* C10, as claimed: a candidate is accepted exactly when it has at least 2
\* rows and at least 30 percent of its cells are non-empty; a rejected
\* candidate is not emitted and suppresses no text.
C10_AcceptedIffTwoRowsThirtyPercent == AcceptanceIs(TwoRowsThirtyPercent)

\* C10, amended: a candidate is accepted exactly when it has at least 2 rows,
\* at least 4 cells in all and at least 30 percent of its cells non-blank
\* (exactly 30 percent is accepted); a rejected candidate is not emitted and
\* suppresses no text.
C10_AcceptedIffFourCells == AcceptanceIs(Accepted)

C10_Witness ==
    /\ PageDone /\ converter = "full"
    /\ page \in ValidationPages
    /\ 10 * FilledCount(page.tables[1].data) = 3 * TotalCount(page.tables[1].data)
    /\ TotalCount(page.tables[1].data) > 0
    /\ EmittedCount("table", 1) = 1
    /\ ~EmittedAsText(1)

\* the images of the page that were extracted and saved
SavedImages == {i \in 1..Len(page.images) : page.images[i].extract_ok}

PlacedAt(type, src, y) ==
    \E k \in 1..Len(all_content) :
        /\ all_content[k].type = type
        /\ all_content[k].src = src
        /\ all_content[k].y_position = y

\* C23: in pdf_to_html an image (or table) without a bounding box is still
\* emitted, at vertical position 0; none is dropped for lack of a position.
C23_EmittedAtTop ==
    (PageDone /\ converter = "full") =>
        \A i \in SavedImages :
            page.images[i].rects = <<>> =>
                (PlacedAt("image", i, 0) /\ EmittedCount("image", i) = 1)

\* an image that has a rectangle is emitted once, at the top of its rectangle
C23_PositionedEmitted ==
    (PageDone /\ converter = "full") =>
        \A i \in SavedImages :
            page.images[i].rects # <<>> =>
                (PlacedAt("image", i, page.images[i].rects[1][2])
                 /\ EmittedCount("image", i) = 1)

----------------------------------------------------------------------------
(* Claims about the text of a page *)

PptDone == html_pc = "ppt_done"

\* the lines of the one block of a style page, and the text of a line
StyleLines == 1..Len(page.blocks[1].lines)
LineSpans(l) == page.blocks[1].lines[l].spans
LineText(l) == Strip(Flatten([k \in 1..Len(LineSpans(l)) |-> LineSpans(l)[k].text]))

UniformSize(l) == \A k \in 1..Len(LineSpans(l)) : LineSpans(l)[k].size = LineSpans(l)[1].size

\* some span of the line starts with a list glyph or with a digit
HasListLookingSpan(l) ==
    \E k \in 1..Len(LineSpans(l)) :
        LET t == Strip(LineSpans(l)[k].text)
        IN  t # <<>> /\ Head(t) \in BulletGlyphs \cup Digits

HeadingTags == {"h1", "h2", "h3"}

\* the class the thresholds 20, 16 and 14 give a size
ClassOfSize(size) ==
    IF size > 20 THEN "h1" ELSE IF size > 16 THEN "h2" ELSE IF size > 14 THEN "h3" ELSE "body"

\* the elements converter.py emitted for line l of the block
EmittedPieces(l) == html_content[1].html[l]

\* the class converter.py emitted line l in
EmittedClass(l) ==
    IF \E k \in 1..Len(EmittedPieces(l)) : EmittedPieces(l)[k].tag \in HeadingTags
    THEN EmittedPieces(l)[CHOOSE k \in 1..Len(EmittedPieces(l)) :
                              EmittedPieces(l)[k].tag \in HeadingTags].tag
    ELSE IF \E k \in 1..Len(EmittedPieces(l)) : EmittedPieces(l)[k].tag = "li"
    THEN "li"
    ELSE "body"

\* converter_lite.py has one kind of heading: it stands for every level
LiteClassAgrees(l) ==
    (html_content[l].kind = "heading") <=> (ClassOfSize(LineSpans(l)[1].size) \in HeadingTags)

IsTitlePage ==
    page = Page(<<>>, <<>>,
                <<LinesBlock(<< [top |-> 0, spans |-> <<StyleSpan(T_Title, F_Bold, 22, 0)>>] >>)>>)

TitleEmitted ==
    IF converter = "full"
    THEN /\ Len(html_content) = 1
         /\ html_content[1].html = << <<Piece("h1", 22, <<>>, T_Title, TRUE, FALSE)>> >>
    ELSE /\ Len(html_content) = 1
         /\ html_content[1].kind = "heading"
         /\ \A k \in 1..Len(html_content[1].runs) : "bold" \in Range(html_content[1].runs[k].style)

ClassifiedBySize ==
    (PageDone /\ page \in StylePages) =>
        /\ \A l \in StyleLines :
              (UniformSize(l) /\ ~HasListLookingSpan(l)) =>
                  IF converter = "full"
                  THEN EmittedClass(l) = ClassOfSize(LineSpans(l)[1].size)
                  ELSE LiteClassAgrees(l)
        /\ (IsTitlePage => TitleEmitted)

\* C11: in pdf_to_html (both converters) a line that is not a list item is a
\* level-1 heading when its size is above 20, level 2 above 16, level 3
\* above 14 and body text otherwise; a bold size-22 "Title" is one bold
\* level-1 heading.
C11_ClassifiedBySize == ClassifiedBySize

\* what C11 says, of converter.py alone (it holds there)
C11_InConverterPy == (converter = "full") => ClassifiedBySize

\* the line's first character that is not a space is a list glyph
IsBulletLine(l) == LineText(l) # <<>> /\ Head(LineText(l)) \in BulletGlyphs

\* the line's text without its first character and the spaces after it
AfterGlyph(l) == Strip(Tail(LineText(l)))

\* C12: in pdf_to_html of converter.py a line whose first non-space
\* character is a bullet glyph is emitted as one item of an unordered list
\* whose text is the line's text without the glyph, whatever the font.
C12_BulletStripped ==
    (PageDone /\ converter = "full" /\ page \in StylePages) =>
        \A l \in StyleLines :
            IsBulletLine(l) =>
                /\ Len(EmittedPieces(l)) = 1
                /\ EmittedPieces(l)[1].tag = "li"
                /\ EmittedPieces(l)[1].text = Escape(AfterGlyph(l))
                /\ html_content[1].wrapper = "ul"

\* the same, of the lines in a font that is neither bold nor italic and of
\* blocks of one line (it holds there)
C12_PlainFontStripped ==
    (/\ PageDone /\ converter = "full" /\ page \in OneSpanPages
     /\ IsBulletLine(1)
     /\ ~FontIsBold(LineSpans(1)[1].font) /\ ~FontIsItalic(LineSpans(1)[1].font)) =>
            /\ EmittedPieces(1) = <<Piece("li", 0, <<>>, Escape(AfterGlyph(1)), FALSE, FALSE)>>
            /\ html_content[1].wrapper = "ul"

\* the text begins with k digits and a '.' that no digit follows
NumberPrefix(text, k) ==
    /\ k >= 1 /\ k < Len(text)
    /\ \A i \in 1..k : text[i] \in Digits
    /\ text[k + 1] = "."
    /\ ((k + 2 <= Len(text)) => text[k + 2] \notin Digits)

BeginsNumbered(text) == \E k \in 1..Len(text) : NumberPrefix(text, k)

AfterNumber(text) ==
    LET k == CHOOSE j \in 1..Len(text) : NumberPrefix(text, j)
    IN  Strip(SubSeq(text, k + 2, Len(text)))

\* C13: in pdf_to_html of converter.py a line is a numbered list item
\* exactly when it begins with digits followed by '.'; the item is emitted
\* in an ordered list, also when alone in its block, with only the numeric
\* prefix removed; "1.5 mio" and "12 a.m." are not list items.
C13_NumberedItems ==
    (PageDone /\ converter = "full" /\ page \in StylePages) =>
        \A l \in StyleLines :
            ~IsBulletLine(l) =>
                IF BeginsNumbered(LineText(l))
                THEN /\ Len(EmittedPieces(l)) = 1
                     /\ EmittedPieces(l)[1].tag = "li"
                     /\ EmittedPieces(l)[1].text = Escape(AfterNumber(LineText(l)))
                     /\ html_content[1].wrapper = "ol"
                ELSE (\A k \in 1..Len(LineSpans(l)) :
                          Head(Strip(LineSpans(l)[k].text)) \notin BulletGlyphs)
                     => EmittedClass(l) # "li"

\* the style the spec derives from a raw span
SpecBold(span) == FontIsBold(span.font) \/ span.size > 14
SpecItalic(span) == FontIsItalic(span.font)

\* the run emitted for the one span of a one-span page is bold (a heading
\* of converter.py counts as bold) / italic
RunIsBold ==
    IF html_pc = "ppt_done" THEN slide[1].paragraphs[1][1].bold
    ELSE IF converter = "full"
    THEN EmittedPieces(1)[1].bold \/ EmittedPieces(1)[1].tag \in HeadingTags
    ELSE \A k \in 1..Len(html_content[1].runs) : "bold" \in Range(html_content[1].runs[k].style)

RunIsItalic ==
    IF html_pc = "ppt_done" THEN slide[1].paragraphs[1][1].italic
    ELSE IF converter = "full" THEN EmittedPieces(1)[1].italic
    ELSE \A k \in 1..Len(html_content[1].runs) : "italic" \in Range(html_content[1].runs[k].style)

StyleInferred ==
    ((PageDone \/ PptDone) /\ page \in OneSpanPages) =>
        /\ RunIsBold <=> SpecBold(LineSpans(1)[1])
        /\ RunIsItalic <=> SpecItalic(LineSpans(1)[1])

\* C14: in pdf_to_html of both converters and in pdf_to_ppt the run emitted
\* for a raw span is bold exactly when its font name contains "bold" or its
\* size is above 14, and italic exactly when its font name contains
\* "italic" or "oblique".
C14_StyleInferred == StyleInferred

\* what C14 says, of converter_lite.py alone (it holds there)
C14_InConverterLite == (converter = "lite") => StyleInferred

\* the style converter.py derives for an emitted element
PieceStyle(piece) ==
    <<piece.tag, piece.font_size, piece.color, piece.bold, piece.italic>>

\* the texts of the non-blank spans of line l, as they are emitted
SpanTexts(l) ==
    SelectSeq([k \in 1..Len(LineSpans(l)) |-> Escape(Strip(LineSpans(l)[k].text))],
              LAMBDA t : t # <<>>)

\* line l of converter.py: no two neighbours of one style, and the texts of
\* the spans in their order
FullLineMerged(l) ==
    LET pieces == EmittedPieces(l) IN
    /\ \A k \in 1..(Len(pieces) - 1) : PieceStyle(pieces[k]) # PieceStyle(pieces[k + 1])
    /\ Flatten([k \in 1..Len(pieces) |-> pieces[k].text]) = Flatten(SpanTexts(l))

\* line l of converter_lite.py, likewise, character by character
LiteLineMerged(l) ==
    LET runs == html_content[l].runs IN
    /\ \A k \in 1..(Len(runs) - 1) : runs[k].style # runs[k + 1].style
    /\ Flatten([k \in 1..Len(runs) |-> runs[k].text])
          = SeqMap(EscapeChar, Flatten([k \in 1..Len(LineSpans(l)) |-> LineSpans(l)[k].text]))

\* C25: in pdf_to_html the spans of a line are emitted in ascending
\* horizontal order with neighbours of one derived style merged into one run:
\* no two adjacent runs have the same style, and the run texts together are
\* the span texts in that order (lines of list items apart).
C25_RunsMerged ==
    (PageDone /\ page \in StylePages) =>
        \A l \in StyleLines :
            ~HasListLookingSpan(l) =>
                (IF converter = "full" THEN FullLineMerged(l) ELSE LiteLineMerged(l))

\* converter_lite.py merges the neighbours of one style
C25_InConverterLite ==
    (PageDone /\ page \in StylePages /\ converter = "lite") =>
        \A l \in StyleLines : LiteLineMerged(l)

IsSuffix(t, whole) ==
    Len(t) <= Len(whole) /\ SubSeq(whole, Len(whole) - Len(t) + 1, Len(whole)) = t

\* span k of line l is in the output: some element of the line holds its
\* text, whole or without a list prefix
SpanAppears(l, k) ==
    \E p \in 1..Len(EmittedPieces(l)) :
        /\ EmittedPieces(l)[p].text # <<>>
        /\ IsSuffix(EmittedPieces(l)[p].text, Escape(Strip(LineSpans(l)[k].text)))

NoSpanLost(l) ==
    \A k \in 1..Len(LineSpans(l)) :
        Strip(LineSpans(l)[k].text) # <<>> => SpanAppears(l, k)

\* C29: in pdf_to_html of converter.py the text of every non-blank span of
\* every line of a free text block is in the emitted HTML (a stripped list
\* prefix apart); a heading-sized or list-marker span never discards the
\* other spans of its line.
C29_NoSpanLost ==
    (PageDone /\ converter = "full" /\ page \in StylePages) =>
        \A l \in StyleLines : NoSpanLost(l)

\* a line of one span keeps its text
C29_SingleSpanKept ==
    (PageDone /\ converter = "full" /\ page \in StylePages) =>
        \A l \in StyleLines : Len(LineSpans(l)) = 1 => NoSpanLost(l)

----------------------------------------------------------------------------
(* word_to_pdf, html_to_pdf, ppt_to_pdf: the temporary directory *)

MaxDocElems == 3   \* elements of a document

PdfHandlers == {"word_to_pdf", "html_to_pdf", "ppt_to_pdf"}

\* an element is an image, a text (paragraph, heading, list, text shape) or a
\* table; `raises` says whether the library call made for it raises
DocElems == [kind : {"image", "text", "table"}, raises : BOOLEAN]

\* the image branch of each loop runs inside try/except; the other branches
\* run unguarded
IsGuarded(kind) == kind = "image"

IdleTemp ==
    /\ pdf_handler = "none"
    /\ doc_elements = <<>>
    /\ build_raises = FALSE
    /\ pdf_pc = "idle"
    /\ element_index = 0
    /\ temp_dir = "none"
    /\ story = <<>>
    /\ pdf_result = "none"

InitTemp ==
    /\ pdf_handler \in PdfHandlers
    /\ doc_elements \in UNION {[1..n -> DocElems] : n \in 0..MaxDocElems}
    /\ build_raises \in BOOLEAN
    /\ pdf_pc = "start"
    /\ element_index = 0
    /\ temp_dir = "none"
    /\ story = <<>>
    /\ pdf_result = "none"

\* temp_dir = tempfile.mkdtemp()
Mkdtemp ==
    /\ pdf_pc = "start"
    /\ temp_dir' = "exists"
    /\ element_index' = 1
    /\ pdf_pc' = "loop"
    /\ UNCHANGED <<pdf_handler, doc_elements, build_raises, story, pdf_result>>

\* one iteration of the element loop on an element the libraries handle
ProcessElement ==
    /\ pdf_pc = "loop"
    /\ element_index <= Len(doc_elements)
    /\ ~doc_elements[element_index].raises
    /\ story' = Append(story, doc_elements[element_index].kind)
    /\ element_index' = element_index + 1
    /\ UNCHANGED <<pdf_handler, doc_elements, build_raises, pdf_pc, temp_dir, pdf_result>>

\* an iteration in which the image branch raises: except ...: pass
SkipElement ==
    /\ pdf_pc = "loop"
    /\ element_index <= Len(doc_elements)
    /\ doc_elements[element_index].raises
    /\ IsGuarded(doc_elements[element_index].kind)
    /\ element_index' = element_index + 1
    /\ UNCHANGED <<pdf_handler, doc_elements, build_raises, pdf_pc, temp_dir, story,
                   pdf_result>>

\* an iteration in which an unguarded branch raises: the exception leaves
\* the function
ElementRaises ==
    /\ pdf_pc = "loop"
    /\ element_index <= Len(doc_elements)
    /\ doc_elements[element_index].raises
    /\ ~IsGuarded(doc_elements[element_index].kind)
    /\ pdf_result' = "raises"
    /\ pdf_pc' = "exit"
    /\ UNCHANGED <<pdf_handler, doc_elements, build_raises, element_index, temp_dir,
                   story>>

\* try: pdf.build(story) / except: raise / finally: shutil.rmtree(temp_dir)
\* (and, in word_to_pdf, the second rmtree after a build that returned)
BuildPdf ==
    /\ pdf_pc = "loop"
    /\ element_index > Len(doc_elements)
    /\ temp_dir' = "removed"
    /\ pdf_result' = IF build_raises THEN "raises" ELSE "returns"
    /\ pdf_pc' = "exit"
    /\ UNCHANGED <<pdf_handler, doc_elements, build_raises, element_index, story>>

\* C5: when word_to_pdf, html_to_pdf or ppt_to_pdf has exited, by return or
\* by exception, the temporary directory it created has been removed.
C5_TempDirRemoved == (pdf_pc = "exit") => (temp_dir = "removed")

\* the same, of the exits through the build alone (it holds there)
C5_RemovedAfterBuild ==
    (pdf_pc = "exit" /\ element_index > Len(doc_elements)) => (temp_dir = "removed")

----------------------------------------------------------------------------
(* ComprehensiveHTMLParser *)

MaxEvents == 3     \* events of a free input
MaxHtmlRows == 2   \* rows of a table document
MaxHtmlCols == 2   \* cells of a row of a table document

\* the attributes of a start tag the parser reads: color and size of <font>,
\* align of <p>/<div>, and for <img> whether there is a src and whether
\* extract_image returns its bytes ("none" | "fails" | "loads")
NoAttrs == [color |-> <<>>, size |-> <<>>, align |-> "left", src |-> "none"]

StartTagWith(tag, attrs) == [kind |-> "start", tag |-> tag, data |-> <<>>, attrs |-> attrs]
StartTag(tag) == StartTagWith(tag, NoAttrs)
EndTag(tag) == [kind |-> "end", tag |-> tag, data |-> <<>>, attrs |-> NoAttrs]
Data(text) == [kind |-> "data", tag |-> "", data |-> text, attrs |-> NoAttrs]

HtmlTags == {"table", "tr", "td", "th", "p"}

HtmlEvents ==
    {StartTag(t) : t \in HtmlTags} \cup {EndTag(t) : t \in HtmlTags}
    \cup {Data(<<"x">>), Data(<<" ">>)}

\* HTMLParser hands the text between two tags to handle_data in one piece
NoAdjacentData(es) ==
    \A i \in 1..(Len(es) - 1) : ~(es[i].kind = "data" /\ es[i + 1].kind = "data")

FreeInputs ==
    {es \in UNION {[1..n -> HtmlEvents] : n \in 0..MaxEvents} : NoAdjacentData(es)}

Repeat(n, es) == Flatten([i \in 1..n |-> es])

CellEvents == <<StartTag("td"), Data(<<"x">>), EndTag("td")>>

\* <table> rows of lens[1], lens[2], ... cells </table> <p>x</p>
TableDocOf(lens) ==
    <<StartTag("table")>>
    \o Flatten([i \in 1..Len(lens) |->
                  <<StartTag("tr")>> \o Repeat(lens[i], CellEvents) \o <<EndTag("tr")>>])
    \o <<EndTag("table"), StartTag("p"), Data(<<"x">>), EndTag("p")>>

\* <table> r rows of c cells </table> <p>x</p>
TableDoc(r, c) == TableDocOf([i \in 1..r |-> c])

Without(es, i) == SubSeq(es, 1, i - 1) \o SubSeq(es, i + 1, Len(es))

\* the table documents, whole or with one tag missing
TableInputs ==
    UNION {{TableDoc(r, c)}
           \cup {Without(TableDoc(r, c), i) :
                    i \in {j \in 1..Len(TableDoc(r, c)) : TableDoc(r, c)[j].kind # "data"}} :
           r \in 1..MaxHtmlRows, c \in 1..MaxHtmlCols}

\* a table of more than WideTableCols columns makes the page landscape
WideTableCols == 8

\* the well-formed table documents of narrow and wide rows
RowLengths == (1..MaxHtmlCols) \cup {WideTableCols, WideTableCols + 1}

RowsInputs ==
    {TableDocOf(lens) : lens \in UNION {[1..r -> RowLengths] : r \in 1..MaxHtmlRows}}

\* inputs of formatting tags around two texts
MaxFormatEvents == 3

FormatEvents ==
    {StartTag(t) : t \in {"b", "i", "p"}} \cup {EndTag(t) : t \in {"b", "i", "p"}}
    \cup {Data(<<"x">>), Data(<<"y">>)}

FormatInputs ==
    {es \in UNION {[1..n -> FormatEvents] : n \in 0..MaxFormatEvents} : NoAdjacentData(es)}

MarkupTags == {"b", "strong", "i", "em", "u"}

\* <p><t>x</t>y</p>,  <p>y<t>x</t></p>,  <t>x</t><p>y</p>,  <p><t>x</p></t>
FormatDocs ==
    UNION {{ <<StartTag("p"), StartTag(t), Data(<<"x">>), EndTag(t), Data(<<"y">>), EndTag("p")>>,
             <<StartTag("p"), Data(<<"y">>), StartTag(t), Data(<<"x">>), EndTag(t), EndTag("p")>>,
             <<StartTag(t), Data(<<"x">>), EndTag(t), StartTag("p"), Data(<<"y">>), EndTag("p")>>,
             <<StartTag("p"), StartTag(t), Data(<<"x">>), EndTag("p"), EndTag(t)>> } :
           t \in MarkupTags}

\* documents of up to MaxBlocks pieces of block-level markup
MaxBlocks == 2

FontRed == [NoAttrs EXCEPT !.color = <<"r","e","d">>]
FontBig == [NoAttrs EXCEPT !.size = <<"5">>]

Snippets ==
    { <<StartTag("h2"), Data(<<"x">>), EndTag("h2")>>,
      <<StartTagWith("p", [NoAttrs EXCEPT !.align = "center"]), Data(<<"x">>), EndTag("p")>>,
      <<StartTag("div"), Data(<<"x">>), StartTag("br"), Data(<<"y">>), EndTag("div")>>,
      <<StartTag("hr")>>,
      <<StartTagWith("img", [NoAttrs EXCEPT !.src = "loads"])>>,
      <<StartTagWith("img", [NoAttrs EXCEPT !.src = "fails"])>>,
      <<StartTag("ul"), StartTag("li"), Data(<<"x">>), EndTag("li"), EndTag("ul")>>,
      <<StartTag("ol"), StartTag("li"), Data(<<"x">>), StartTag("li"), Data(<<"y">>), EndTag("ol")>>,
      <<StartTag("ul"), StartTag("li"), Data(<<"x">>), StartTag("ul"), StartTag("li"),
        Data(<<"y">>), EndTag("li"), EndTag("ul"), EndTag("li"), EndTag("ul")>>,
      <<StartTagWith("font", FontRed), StartTagWith("font", FontBig), Data(<<"x">>),
        EndTag("font"), Data(<<"y">>), EndTag("font")>>,
      <<StartTag("a"), StartTag("span"), StartTag("s"), StartTag("code"), Data(<<"x">>),
        EndTag("code"), EndTag("s"), EndTag("span"), EndTag("a")>> }

BlockDocs == {Flatten(ss) : ss \in UNION {[1..n -> Snippets] : n \in 0..MaxBlocks}}

\* ' '.join(strings)
JoinSpace(ss) ==
    IF ss = <<>> THEN <<>>
    ELSE Head(ss) \o Flatten([i \in 1..(Len(ss) - 1) |-> <<" ">> \o ss[i + 1]])

\* the escaping of format_text; the characters are single-character strings
\* and the entities stand for the characters they are made of
FormatEscapeChar(ch) ==
    CASE ch = "&" -> "&amp;"
      [] ch = "<" -> "&lt;"
      [] ch = ">" -> "&gt;"
      [] OTHER -> ch

\* an entry of format_stack: 'bold', 'italic', 'underline', 'strike', 'code'
\* or a tuple ('link', href), ('font', color, size), ('span', style)
Fmt(kind, color, size) == [kind |-> kind, color |-> color, size |-> size]

\* <tag attr="value">...</tag> around a text
Wrap(tag, attr, value) == [tag |-> tag, attr |-> attr, value |-> value]

\* the markup one entry puts around the text, innermost first
WrapsOf(fmt) ==
    CASE fmt.kind = "bold" -> <<Wrap("b", "", <<>>)>>
      [] fmt.kind = "italic" -> <<Wrap("i", "", <<>>)>>
      [] fmt.kind = "underline" -> <<Wrap("u", "", <<>>)>>
      [] fmt.kind = "strike" -> <<Wrap("strike", "", <<>>)>>
      [] fmt.kind = "code" -> <<Wrap("font", "face", <<"C","o","u","r","i","e","r">>)>>
      [] fmt.kind = "link" -> <<Wrap("u", "", <<>>), Wrap("font", "color", <<"b","l","u","e">>)>>
      [] fmt.kind = "font" ->
            (IF fmt.color # <<>> THEN <<Wrap("font", "color", fmt.color)>> ELSE <<>>)
            \o (IF fmt.size # <<>> THEN <<Wrap("font", "size", fmt.size)>> ELSE <<>>)
      [] OTHER -> <<>>

NoText == [chars |-> <<>>, wraps |-> <<>>]

\* format_text: the escaped text inside the markup of every entry of the
\* stack as it is when the text is formatted
FormatText(ps, text) ==
    IF text = <<>> THEN NoText
    ELSE [chars |-> SeqMap(FormatEscapeChar, text),
          wraps |-> Flatten([k \in 1..Len(ps.format_stack) |-> WrapsOf(ps.format_stack[k])])]

\* current_table is the list [] until the first <table>: 0 stands for it,
\* n > 0 for the n-th dict created
InitialList == 0

ParserInit ==
    [elements |-> <<>>, current_text |-> <<>>, format_stack |-> <<>>, in_table |-> FALSE,
     in_table_row |-> FALSE, in_table_header |-> FALSE,
     current_table |-> InitialList, current_row |-> 1, current_cell |-> <<>>,
     in_list |-> FALSE, list_items |-> <<>>, list_type |-> "ul",
     heading_level |-> 0, align |-> "left"]

\* an entry of elements: ('p', {text, align}), ('h<n>', text), ('table', dict),
\* ('list', {type, items}), ('image', {data, ...}), ('hr', {})
Element(type, text, table) ==
    [type |-> type, text |-> text, table |-> table, align |-> "left",
     list_type |-> "", items |-> <<>>]

HeadingTagNames == {"h1", "h2", "h3", "h4", "h5", "h6"}

\* int(tag[1])
HeadingLevel(tag) ==
    CASE tag = "h1" -> 1 [] tag = "h2" -> 2 [] tag = "h3" -> 3
      [] tag = "h4" -> 4 [] tag = "h5" -> 5 [] tag = "h6" -> 6

\* f'h{level}'
HeadingType(level) ==
    CASE level = 1 -> "h1" [] level = 2 -> "h2" [] level = 3 -> "h3"
      [] level = 4 -> "h4" [] level = 5 -> "h5" [] level = 6 -> "h6"

\* flush_text
FlushText(ps) ==
    IF ps.current_text = <<>> THEN ps
    ELSE IF Strip(JoinSpace(ps.current_text)) = <<>> THEN [ps EXCEPT !.current_text = <<>>]
    ELSE LET formatted_text == FormatText(ps, Strip(JoinSpace(ps.current_text)))
         IN  [ps EXCEPT
                !.elements =
                    Append(@, IF ps.heading_level # 0
                              THEN Element(HeadingType(ps.heading_level), formatted_text, 0)
                              ELSE [Element("p", formatted_text, 0) EXCEPT !.align = ps.align]),
                !.current_text = <<>>]

\* the stack entry a formatting tag stands for
FormatKind(tag) ==
    CASE tag \in {"b", "strong"} -> "bold"
      [] tag \in {"i", "em"} -> "italic"
      [] tag = "u" -> "underline"
      [] tag \in {"strike", "s"} -> "strike"
      [] tag \in {"code", "pre"} -> "code"
      [] tag = "a" -> "link"
      [] tag = "font" -> "font"
      [] tag = "span" -> "span"
      [] OTHER -> "none"

\* list.remove(kind): the first entry of the kind goes
RemoveFirst(stack, kind) ==
    IF \E k \in 1..Len(stack) : stack[k].kind = kind
    THEN LET k == CHOOSE j \in 1..Len(stack) :
                     stack[j].kind = kind /\ \A i \in 1..(j - 1) : stack[i].kind # kind
         IN  SubSeq(stack, 1, k - 1) \o SubSeq(stack, k + 1, Len(stack))
    ELSE stack

\* [f for f in stack if not (isinstance(f, tuple) and f[0] == kind)]
RemoveAll(stack, kind) == SelectSeq(stack, LAMBDA f : f.kind # kind)

IdleParser ==
    /\ feed_input = <<>>
    /\ feed_pos = 0
    /\ feed_pc = "idle"
    /\ parser = ParserInit
    /\ row_heap = << <<>> >>
    /\ table_heap = <<>>

InitParser ==
    /\ feed_input \in FreeInputs \cup TableInputs \cup RowsInputs \cup FormatInputs
                      \cup FormatDocs \cup BlockDocs
    /\ feed_pos = 1
    /\ feed_pc = "feeding"
    /\ parser = ParserInit
    /\ row_heap = << <<>> >>
    /\ table_heap = <<>>

AtEvent(kind) ==
    /\ feed_pc = "feeding"
    /\ feed_pos <= Len(feed_input)
    /\ feed_input[feed_pos].kind = kind

Advance == feed_pos' = feed_pos + 1 /\ UNCHANGED <<feed_input, feed_pc>>

Raise == feed_pc' = "raised" /\ UNCHANGED <<feed_input, feed_pos, parser, row_heap, table_heap>>

\* handle_starttag without the objects it creates
StartTagFields(ps, tag, attrs) ==
    CASE tag = "img" ->
            IF attrs.src = "none" THEN ps
            ELSE IF attrs.src = "loads"
                 THEN [FlushText(ps) EXCEPT !.elements = Append(@, Element("image", NoText, 0))]
                 ELSE FlushText(ps)
      [] tag = "table" -> [FlushText(ps) EXCEPT !.in_table = TRUE]
      [] tag = "tr" -> [ps EXCEPT !.in_table_row = TRUE]
      [] tag \in {"th", "td"} ->
            [ps EXCEPT !.in_table_header = (tag = "th"), !.current_cell = <<>>]
      [] tag \in {"ul", "ol"} ->
            [FlushText(ps) EXCEPT !.in_list = TRUE, !.list_type = tag, !.list_items = <<>>]
      [] tag = "li" -> IF ps.in_list THEN [ps EXCEPT !.current_text = <<>>] ELSE ps
      [] tag \in HeadingTagNames -> [FlushText(ps) EXCEPT !.heading_level = HeadingLevel(tag)]
      [] tag \in {"p", "div"} -> [FlushText(ps) EXCEPT !.align = attrs.align]
      [] tag = "br" -> [ps EXCEPT !.current_text = Append(@, <<"<","b","r","/",">">>)]
      [] tag = "hr" -> [FlushText(ps) EXCEPT !.elements = Append(@, Element("hr", NoText, 0))]
      [] FormatKind(tag) # "none" ->
            [ps EXCEPT !.format_stack = Append(@, Fmt(FormatKind(tag), attrs.color, attrs.size))]
      [] OTHER -> ps

HandleStartTag ==
    /\ AtEvent("start")
    /\ LET tag == feed_input[feed_pos].tag
           fields == StartTagFields(parser, tag, feed_input[feed_pos].attrs)
       IN  /\ parser' = IF tag = "table" THEN [fields EXCEPT !.current_table = Len(table_heap) + 1]
                        ELSE IF tag = "tr" THEN [fields EXCEPT !.current_row = Len(row_heap) + 1]
                        ELSE fields
           /\ table_heap' = IF tag = "table" THEN Append(table_heap, <<>>) ELSE table_heap
           /\ row_heap' = IF tag = "tr" THEN Append(row_heap, <<>>) ELSE row_heap
    /\ Advance

\* handle_endtag without the lists it appends to
EndTagFields(ps, tag) ==
    CASE tag = "table" ->
            [ps EXCEPT
               !.elements = IF table_heap[ps.current_table] # <<>>
                            THEN Append(@, Element("table", NoText, ps.current_table))
                            ELSE @,
               !.in_table = FALSE]
      [] tag = "tr" -> [ps EXCEPT !.in_table_row = FALSE]
      [] tag \in {"th", "td"} -> [ps EXCEPT !.current_cell = <<>>, !.in_table_header = FALSE]
      [] tag \in {"ul", "ol"} ->
            [ps EXCEPT
               !.elements = IF ps.list_items # <<>>
                            THEN Append(@, [Element("list", NoText, 0) EXCEPT
                                              !.list_type = ps.list_type,
                                              !.items = ps.list_items])
                            ELSE @,
               !.in_list = FALSE]
      [] tag = "li" ->
            IF ps.in_list /\ ps.current_text # <<>>
            THEN [ps EXCEPT
                    !.list_items = Append(@, FormatText(ps, Strip(JoinSpace(ps.current_text)))),
                    !.current_text = <<>>]
            ELSE ps
      [] tag \in HeadingTagNames -> [FlushText(ps) EXCEPT !.heading_level = 0]
      [] tag \in {"p", "div"} -> [FlushText(ps) EXCEPT !.align = "left"]
      [] FormatKind(tag) \in {"bold", "italic", "underline", "strike", "code"} ->
            [ps EXCEPT !.format_stack = RemoveFirst(@, FormatKind(tag))]
      [] FormatKind(tag) \in {"link", "font", "span"} ->
            [ps EXCEPT !.format_stack = RemoveAll(@, FormatKind(tag))]
      [] OTHER -> ps

\* self.current_table['rows'] raises TypeError while current_table is the list
EndTagRaises(ps, tag) ==
    \/ tag = "table" /\ ps.current_table = InitialList
    \/ tag = "tr" /\ row_heap[ps.current_row] # <<>> /\ ps.current_table = InitialList

HandleEndTag ==
    /\ AtEvent("end")
    /\ LET tag == feed_input[feed_pos].tag IN
         IF EndTagRaises(parser, tag) THEN Raise
         ELSE /\ parser' = EndTagFields(parser, tag)
              /\ table_heap' = IF tag = "tr" /\ row_heap[parser.current_row] # <<>>
                               THEN [table_heap EXCEPT ![parser.current_table] =
                                        Append(@, parser.current_row)]
                               ELSE table_heap
              /\ row_heap' = IF tag \in {"th", "td"}
                             THEN [row_heap EXCEPT ![parser.current_row] =
                                     Append(@, [text |-> FormatText(parser,
                                                           Strip(JoinSpace(parser.current_cell))),
                                                is_header |-> parser.in_table_header])]
                             ELSE row_heap
              /\ Advance

HandleData ==
    /\ AtEvent("data")
    /\ LET data == feed_input[feed_pos].data IN
         parser' =
            IF Strip(data) = <<>>
            THEN IF data = <<>> THEN parser
                 ELSE IF parser.in_table
                      THEN [parser EXCEPT !.current_cell = Append(@, <<" ">>)]
                      ELSE [parser EXCEPT !.current_text = Append(@, <<" ">>)]
            ELSE IF parser.in_table /\ ~parser.in_list
                 THEN [parser EXCEPT !.current_cell = Append(@, data)]
                 ELSE [parser EXCEPT !.current_text = Append(@, data)]
    /\ UNCHANGED <<row_heap, table_heap>>
    /\ Advance

\* feed has returned: parser.flush_text()
FeedEnd ==
    /\ feed_pc = "feeding"
    /\ feed_pos > Len(feed_input)
    /\ parser' = FlushText(parser)
    /\ feed_pc' = "parsed"
    /\ UNCHANGED <<feed_input, feed_pos, row_heap, table_heap>>

\* C6: a malformed table (an unmatched table or row end tag) never makes
\* html_to_pdf raise: the feed of the parser always comes to its end.
C6_MalformedTableSkipped == feed_pc # "raised"

Parsed == feed_pc = "parsed"

\* the positions of the input that hold a text
DataPositions ==
    {i \in 1..Len(feed_input) :
        feed_input[i].kind = "data" /\ Strip(feed_input[i].data) # <<>>}

\* the input is made of paragraphs, bold, italic and underline tags and texts
\* that differ from each other
OnlyMarkup ==
    /\ \A i \in 1..Len(feed_input) :
          feed_input[i].kind # "data" => feed_input[i].tag \in MarkupTags \cup {"p"}
    /\ \A i, j \in DataPositions : i # j => feed_input[i].data # feed_input[j].data

\* the number of elements of the kind open after the first n events
RECURSIVE OpenDepth(_, _, _)
OpenDepth(es, n, kind) ==
    IF n = 0 THEN 0
    ELSE LET d == OpenDepth(es, n - 1, kind)
         IN  IF es[n].kind = "data" \/ FormatKind(es[n].tag) # kind THEN d
             ELSE IF es[n].kind = "start" THEN d + 1
             ELSE IF d > 0 THEN d - 1 ELSE 0

\* the text at position i is between an opening tag of the kind and its closing tag
BetweenTags(i, kind) == OpenDepth(feed_input, i - 1, kind) > 0

\* the paragraphs that hold the text of position i
HoldersOf(i) ==
    {k \in 1..Len(parser.elements) :
        /\ parser.elements[k].type = "p"
        /\ \E c \in 1..Len(parser.elements[k].text.chars) :
              parser.elements[k].text.chars[c] = feed_input[i].data[1]}

MarkupOf(kind) ==
    CASE kind = "bold" -> "b" [] kind = "italic" -> "i" [] kind = "underline" -> "u"

HasMarkup(text, kind) ==
    \E w \in 1..Len(text.wraps) : text.wraps[w] = Wrap(MarkupOf(kind), "", <<>>)

\* C15: in html_to_pdf a text carries bold, italic or underline markup
\* exactly when it lies between the opening tag and its matching closing tag,
\* also when the text is flushed after the tag was closed.
C15_MarkupBetweenTags ==
    (Parsed /\ OnlyMarkup) =>
        \A i \in DataPositions : \A k \in HoldersOf(i) :
            \A kind \in {"bold", "italic", "underline"} :
                HasMarkup(parser.elements[k].text, kind) <=> BetweenTags(i, kind)

\* markup around a text comes from a tag of the input that opens it
C15_MarkupFromATag ==
    (Parsed /\ OnlyMarkup) =>
        \A i \in DataPositions : \A k \in HoldersOf(i) :
            \A kind \in {"bold", "italic", "underline"} :
                HasMarkup(parser.elements[k].text, kind) =>
                    \E j \in 1..Len(feed_input) :
                        feed_input[j].kind = "start" /\ FormatKind(feed_input[j].tag) = kind

\* the formatting elements open after the first n events, innermost last;
\* ok is FALSE once a closing tag does not close the innermost one
RECURSIVE OpenFormats(_, _)
OpenFormats(es, n) ==
    IF n = 0 THEN [ok |-> TRUE, open |-> <<>>]
    ELSE LET before == OpenFormats(es, n - 1)
             ev == es[n]
         IN  IF ev.kind = "data" \/ FormatKind(ev.tag) = "none" \/ ~before.ok THEN before
             ELSE IF ev.kind = "start" THEN [before EXCEPT !.open = Append(@, ev.tag)]
             ELSE IF before.open # <<>> /\ before.open[Len(before.open)] = ev.tag
                  THEN [before EXCEPT !.open = SubSeq(@, 1, Len(@) - 1)]
                  ELSE [before EXCEPT !.ok = FALSE]

FormatKinds == {"bold", "italic", "underline", "strike", "code", "link", "font", "span"}

CountKind(kinds, kind) == Cardinality({k \in 1..Len(kinds) : kinds[k] = kind})

\* one entry of format_stack for every open formatting element
StackMatchesOpen ==
    LET seen == OpenFormats(feed_input, feed_pos - 1)
        stack_kinds == [k \in 1..Len(parser.format_stack) |-> parser.format_stack[k].kind]
        open_kinds == [k \in 1..Len(seen.open) |-> FormatKind(seen.open[k])]
    IN  seen.ok => \A kind \in FormatKinds :
                      CountKind(stack_kinds, kind) = CountKind(open_kinds, kind)

\* C28: for a well-nested sequence of formatting tags format_stack holds,
\* after each event, exactly one entry per formatting element that is open;
\* closing an inner font, span or a leaves the entry of an enclosing one.
C28_OneEntryPerOpenElement == feed_pc \in {"feeding", "parsed"} => StackMatchesOpen

TupleTags == {"a", "font", "span"}

\* so it is as long as no a, font or span is inside another of its kind
C28_WithoutTupleTags ==
    (feed_pc \in {"feeding", "parsed"}
     /\ \A i \in 1..Len(feed_input) : feed_input[i].tag \notin TupleTags)
        => StackMatchesOpen

\* the texts html_to_pdf gets from the parser: those of the paragraphs and
\* headings, of the items of the lists and of the cells of the tables
ElementTexts(el) ==
    CASE el.type = "list" -> [k \in 1..Len(el.items) |-> el.items[k].chars]
      [] el.type = "table" ->
            Flatten([r \in 1..Len(table_heap[el.table]) |->
                [c \in 1..Len(row_heap[table_heap[el.table][r]]) |->
                    row_heap[table_heap[el.table][r]][c].text.chars]])
      [] OTHER -> <<el.text.chars>>

EmittedTexts == Flatten([k \in 1..Len(parser.elements) |-> ElementTexts(parser.elements[k])])

\* how often the character is in the emitted texts, and in the texts fed
EmittedOccurrences(ch) ==
    LET chars == Flatten(EmittedTexts)
    IN  Cardinality({k \in 1..Len(chars) : chars[k] = ch})

FedOccurrences(ch) ==
    Cardinality({i \in DataPositions : feed_input[i].data = <<ch>>})

TextKept == \A ch \in {"x", "y"} : EmittedOccurrences(ch) = FedOccurrences(ch)

\* C27: in html_to_pdf every non-blank text fed to the parser is, after the
\* final flush, in exactly one emitted paragraph, heading, list item or table
\* cell: none is lost and none is there twice.
C27_TextKept == Parsed => TextKept

\* so it is for paragraphs with bold, italic and underlined text
C27_InParagraphs ==
    (Parsed /\ \A i \in 1..Len(feed_input) :
                  feed_input[i].kind # "data" => feed_input[i].tag \in MarkupTags \cup {"p"})
        => TextKept

\* html_to_pdf, the table branch: table_data has a row for every row of the
\* parsed table and a Paragraph or '' for every cell of that row
TableData(table_rows) ==
    [r \in 1..Len(table_rows) |->
        [c \in 1..Len(row_heap[table_rows[r]]) |-> row_heap[table_rows[r]][c].text.chars]]

\* the tables that reach Table(table_data, colWidths=...)
RenderedTables ==
    {TableData(table_heap[parser.elements[k].table]) :
        k \in {i \in 1..Len(parser.elements) :
                  /\ parser.elements[i].type = "table"
                  /\ table_heap[parser.elements[i].table] # <<>>}}

SameCellCount(table_data) ==
    \A r \in 1..Len(table_data) : Len(table_data[r]) = Len(table_data[1])

\* C18: every table that html_to_pdf hands to the renderer has in every row
\* as many cells as in its first row; shorter rows are padded with empty
\* cells and no row is longer.
C18_RowsOfEqualLength ==
    Parsed => \A table_data \in RenderedTables : SameCellCount(table_data)

\* the grids pdf_to_ppt puts on the slide have rows of one length
C18_InPdfToPpt ==
    PptDone =>
        \A k \in 1..Len(slide) : slide[k].type = "table" => SameCellCount(slide[k].rows)

\* element_type[1] of a heading type
TypeDigit(type) ==
    CASE type = "h1" -> "1" [] type = "h2" -> "2" [] type = "h3" -> "3"
      [] type = "h4" -> "4" [] type = "h5" -> "5" [] type = "h6" -> "6"

\* the style html_to_pdf adds for the headings of a level (CustomH1..CustomH6)
HeadingStyleOfLevel(level) ==
    CASE level = 1 -> "CustomH1" [] level = 2 -> "CustomH2" [] level = 3 -> "CustomH3"
      [] level = 4 -> "CustomH4" [] level = 5 -> "CustomH5" [] level = 6 -> "CustomH6"

\* the element types the parser appends, as Python strings
TypeChars(type) ==
    CASE type = "image" -> <<"i", "m", "a", "g", "e">>
      [] type = "table" -> <<"t", "a", "b", "l", "e">>
      [] type = "list" -> <<"l", "i", "s", "t">>
      [] type = "p" -> <<"p">>
      [] type = "hr" -> <<"h", "r">>
      [] type \in HeadingTagNames -> <<"h", TypeDigit(type)>>

\* str.startswith
StartsWith(chars, prefix) ==
    Len(chars) >= Len(prefix) /\ SubSeq(chars, 1, Len(prefix)) = prefix

\* html_to_pdf, the element loop: the branch of the if/elif chain that an
\* element type enters
BranchOf(element_type) ==
    IF element_type = "image" THEN "image"
    ELSE IF element_type = "table" THEN "table"
    ELSE IF element_type = "list" THEN "list"
    ELSE IF StartsWith(TypeChars(element_type), <<"h">>) THEN "heading"
    ELSE IF element_type = "p" THEN "paragraph"
    ELSE IF element_type = "hr" THEN "rule"
    ELSE "none"

\* the style the heading branch gives its Paragraph:
\* styles.get(f'CustomH{level}', styles['Heading1']) with level = element_type[1]
CustomStyles == {"CustomH1", "CustomH2", "CustomH3", "CustomH4", "CustomH5", "CustomH6"}

HeadingStyle(element_type) ==
    LET level == TypeChars(element_type)[2]
        style_name == CASE level = "1" -> "CustomH1" [] level = "2" -> "CustomH2"
                        [] level = "3" -> "CustomH3" [] level = "4" -> "CustomH4"
                        [] level = "5" -> "CustomH5" [] level = "6" -> "CustomH6"
                        [] OTHER -> "CustomH?"
    IN  IF style_name \in CustomStyles THEN style_name ELSE "Heading1"

\* the branch that is written for the element type
OwnBranch(element_type) ==
    CASE element_type = "image" -> "image"
      [] element_type = "table" -> "table"
      [] element_type = "list" -> "list"
      [] element_type \in HeadingTagNames -> "heading"
      [] element_type = "p" -> "paragraph"
      [] element_type = "hr" -> "rule"

\* the branches the loop takes over parser.elements, in order
RenderedBy == [k \in 1..Len(parser.elements) |-> BranchOf(parser.elements[k].type)]

RenderedByOwnBranch(k) ==
    LET element_type == parser.elements[k].type
    IN  /\ RenderedBy[k] = OwnBranch(element_type)
        /\ element_type \in HeadingTagNames =>
              HeadingStyle(element_type) = HeadingStyleOfLevel(HeadingLevel(element_type))

\* C26: html_to_pdf renders each element of the parser, in document order, by
\* the branch of its own type: image, table, list, heading of the level of
\* h1..h6, paragraph, and a rule for hr; no type enters the branch of another.
C26_OwnBranch ==
    Parsed => \A k \in 1..Len(parser.elements) : RenderedByOwnBranch(k)

\* so it is for every element but a horizontal rule
C26_ButForRules ==
    Parsed => \A k \in 1..Len(parser.elements) :
                 parser.elements[k].type # "hr" => RenderedByOwnBranch(k)

----------------------------------------------------------------------------
(* Tables of word_to_pdf, excel_to_pdf, ppt_to_pdf and html_to_pdf:
   page size, column widths and background colours *)

\* A Python float is m * 2^e with a mantissa m of 53 bits; the model keeps
\* the arithmetic (every operation rounds its exact result to the nearest
\* float, ties to even) with a mantissa of MantissaBits bits.
MantissaBits == 10

RECURSIVE Pow2(_)
Pow2(n) == IF n = 0 THEN 1 ELSE 2 * Pow2(n - 1)

Float(m, e) == [m |-> m, e |-> e]

FloatZero == Float(0, 0)

\* the float nearest to (n / d) * 2^e
RECURSIVE RoundRat(_, _, _)
RoundRat(n, d, e) ==
    IF n = 0 THEN FloatZero
    ELSE IF n >= d * Pow2(MantissaBits) THEN RoundRat(n, 2 * d, e + 1)
    ELSE IF n < d * Pow2(MantissaBits - 1) THEN RoundRat(2 * n, d, e - 1)
    ELSE LET q == n \div d
             r == n % d
             m == IF 2 * r > d \/ (2 * r = d /\ q % 2 = 1) THEN q + 1 ELSE q
         IN  IF m = Pow2(MantissaBits) THEN Float(Pow2(MantissaBits - 1), e + 1)
             ELSE Float(m, e)

\* the float of a literal or of an int
FromRat(n, d) == RoundRat(n, d, 0)

FloatMul(a, b) == RoundRat(a.m * b.m, 1, a.e + b.e)

FloatDiv(a, b) == RoundRat(a.m, b.m, a.e - b.e)

\* the operand of the larger exponent first
FloatAddOrdered(a, b) ==
    IF a.e - b.e > MantissaBits + 1 THEN a
    ELSE RoundRat(a.m * Pow2(a.e - b.e) + b.m, 1, b.e)

FloatAdd(a, b) ==
    IF a.m = 0 THEN b
    ELSE IF b.m = 0 THEN a
    ELSE IF a.e >= b.e THEN FloatAddOrdered(a, b) ELSE FloatAddOrdered(b, a)

\* a - b for a >= b > 0
FloatSub(a, b) ==
    IF a.e - b.e > MantissaBits + 1 THEN a
    ELSE RoundRat(a.m * Pow2(a.e - b.e) - b.m, 1, b.e)

\* a < b, for floats that are not negative
FloatLess(a, b) ==
    IF a.m = 0 THEN b.m # 0
    ELSE IF b.m = 0 THEN FALSE
    ELSE a.e < b.e \/ (a.e = b.e /\ a.m < b.m)

\* min(a, b) and max(a, b) of Python: the first of two equal arguments
FloatMin(a, b) == IF FloatLess(b, a) THEN b ELSE a

FloatMax(a, b) == IF FloatLess(a, b) THEN b ELSE a

\* sum(ws): from the int 0, left to right
RECURSIVE FloatSumFrom(_, _)
FloatSumFrom(acc, ws) ==
    IF ws = <<>> THEN acc ELSE FloatSumFrom(FloatAdd(acc, Head(ws)), Tail(ws))

FloatSum(ws) == FloatSumFrom(FloatZero, ws)

\* reportlab.lib.units.inch
Inch == FromRat(72, 1)

\* pagesize[0] of letter, landscape(letter) and landscape(A3), in points
PageWidth(size) ==
    CASE size = "letter" -> FromRat(612, 1)
      [] size = "landscape(letter)" -> FromRat(792, 1)
      [] size = "landscape(A3)" -> FromRat(119055, 100)

IsLandscape(size) == size \in {"landscape(letter)", "landscape(A3)"}

None == "None"

\* the colours the converters put on their own
HeaderAccent(fn) == IF fn = "word_to_pdf" THEN "#366092" ELSE "#2C3E50"

LightGray(fn) ==
    CASE fn = "word_to_pdf" -> "#f9f9f9"
      [] fn = "ppt_to_pdf" -> "#ECF0F1"
      [] OTHER -> "#F8F9FA"

\* colors.white if row_idx % 2 == 1 else the light gray
AlternatingColor(fn, row_idx) == IF row_idx % 2 = 1 THEN "white" ELSE LightGray(fn)

\* ('BACKGROUND', (c0, r0), (c1, r1), color); rows and columns count from 0
\* and -1 is the last column
Background(c0, r0, c1, r1, color) ==
    [c0 |-> c0, r0 |-> r0, c1 |-> c1, r1 |-> r1, color |-> color]

\* any(row): some cell of the row has an extracted colour
RowHasCustomBg(row) == \E c \in 1..Len(row) : row[c] # None

\* ---- the sources

MaxStyleCells == 6
MaxSheetCols == 3

\* what the converter has read of one table of the source
\*   cell_styles        extracted background colour of every cell, or None
\*   first_row_bold     excel_to_pdf: some cell of the first row is bold
\*   is_header          html_to_pdf: the first cell of the first row is a <th>
\*   col_widths_chars   longest text of every column, in characters
\*   max_cols, max_content_width   excel_to_pdf: of the widest worksheet
\*   slide_wide         ppt_to_pdf: slide_width > slide_height
TableSource(cell_styles, flag, chars, content_width, slide_wide) ==
    [cell_styles |-> cell_styles, first_row_bold |-> flag, is_header |-> flag,
     col_widths_chars |-> chars, max_cols |-> Len(chars),
     max_content_width |-> content_width, slide_wide |-> slide_wide]

Ones(n) == [c \in 1..n |-> 1]

\* the tables of at most n cells
Matrices(n, values) ==
    UNION {[1..rc[1] -> [1..rc[2] -> values]] :
              rc \in {x \in (1..n) \X (1..n) : x[1] * x[2] <= n}}

\* tables of a few cells, each coloured red or not at all, and one table of
\* two colours
ColouredTables ==
    Matrices(MaxStyleCells, {None, "red"})
    \cup { << <<"red", "blue">>, <<None, None>> >> }

CharCounts == {0, 1, 10, 40}

ColumnChars == UNION {[1..n -> CharCounts] : n \in 1..MaxSheetCols}

\* tables of one colourless row, narrow ones and ones of 9, 11 and 16 columns
PlainRow(n) == << [c \in 1..n |-> None] >>

WideCounts == {WideTableCols + 1, 11, 16}

\* the widths of the columns of a sheet add up to max_content_width
ContentWidths(n) == {10 * n, 121, 201}

\* html tables whose rows differ in length
RaggedTables ==
    {[r \in 1..Len(lens) |-> [c \in 1..lens[r] |-> None]] :
        lens \in [1..2 -> {1, WideTableCols, WideTableCols + 1}]}

SourcesOf(fn) ==
    CASE fn = "word_to_pdf" ->
            {TableSource(m, FALSE, Ones(Len(m[1])), 0, FALSE) : m \in ColouredTables}
            \cup {TableSource(PlainRow(Len(ch)), FALSE, ch, 0, FALSE) : ch \in ColumnChars}
            \cup {TableSource(PlainRow(n), FALSE, Ones(n), 0, FALSE) : n \in WideCounts}
      [] fn = "excel_to_pdf" ->
            {TableSource(m, b, Ones(Len(m[1])), 10 * Len(m[1]), FALSE) :
                m \in ColouredTables, b \in BOOLEAN}
            \cup UNION {{TableSource(PlainRow(Len(ch)), FALSE, ch, w, FALSE) :
                            w \in ContentWidths(Len(ch))} : ch \in ColumnChars}
            \cup {TableSource(PlainRow(n), FALSE, Ones(n), 10 * n, FALSE) : n \in WideCounts}
      [] fn = "ppt_to_pdf" ->
            {TableSource(m, FALSE, Ones(Len(m[1])), 0, w) :
                m \in ColouredTables, w \in BOOLEAN}
      [] fn = "html_to_pdf" ->
            {TableSource(m, h, Ones(Len(m[1])), 0, FALSE) :
                m \in Matrices(MaxStyleCells, {None}) \cup RaggedTables,
                h \in BOOLEAN}

TableFunctions == {"word_to_pdf", "excel_to_pdf", "ppt_to_pdf", "html_to_pdf"}

\* ---- the page size

\* the pagesize given to SimpleDocTemplate
ChosenPagesize(fn, src) ==
    CASE fn = "word_to_pdf" -> "letter"
      [] fn = "excel_to_pdf" ->
            IF src.max_cols > 15 \/ src.max_content_width > 200 THEN "landscape(A3)"
            ELSE IF src.max_cols > 10 \/ src.max_content_width > 120 THEN "landscape(letter)"
            ELSE "letter"
      [] fn = "ppt_to_pdf" -> IF src.slide_wide THEN "landscape(letter)" ELSE "letter"
      [] fn = "html_to_pdf" ->
            IF Len(src.cell_styles[1]) > WideTableCols THEN "landscape(letter)" ELSE "letter"

\* ---- the column widths

\* sum(col_widths) or 1
TotalChars(chars) == IF SumSeq(chars) = 0 THEN 1 ELSE SumSeq(chars)

\* word_to_pdf: (w / total_chars) * total_width, with total_width = 6.5 * inch
WordWidths(chars) ==
    [c \in 1..Len(chars) |->
        FloatMul(FloatDiv(FromRat(chars[c], 1), FromRat(TotalChars(chars), 1)),
                 FloatMul(FromRat(65, 10), Inch))]

\* excel_to_pdf: available_width = pagesize[0] - 0.8*inch
ExcelAvailableWidth(size) == FloatSub(PageWidth(size), FloatMul(FromRat(8, 10), Inch))

\* max(min_width, min(proportional_width, max_width))
ExcelClamped(char_count, total_chars, available_width) ==
    LET min_width == FloatMul(FromRat(5, 10), Inch)
        max_width == FloatDiv(available_width, FromRat(2, 1))
        proportional_width ==
            FloatMul(FloatDiv(FromRat(char_count, 1), FromRat(total_chars, 1)), available_width)
    IN  FloatMax(min_width, FloatMin(proportional_width, max_width))

ExcelClampedWidths(chars, size) ==
    [c \in 1..Len(chars) |-> ExcelClamped(chars[c], TotalChars(chars), ExcelAvailableWidth(size))]

\* if current_total > available_width: every width times available_width / current_total
ExcelNeedsScaling(chars, size) ==
    FloatLess(ExcelAvailableWidth(size), FloatSum(ExcelClampedWidths(chars, size)))

ExcelWidths(chars, size) ==
    LET available_width == ExcelAvailableWidth(size)
        clamped == ExcelClampedWidths(chars, size)
        scale_factor == FloatDiv(available_width, FloatSum(clamped))
    IN  IF ExcelNeedsScaling(chars, size)
        THEN [c \in 1..Len(clamped) |-> FloatMul(clamped[c], scale_factor)]
        ELSE clamped

\* ppt_to_pdf and html_to_pdf: [available_width / num_cols] * num_cols,
\* with available_width = pagesize[0] - 1.5*inch and num_cols = len(table_data[0])
EqualWidths(cell_styles, size) ==
    LET num_cols == Len(cell_styles[1])
        available_width == FloatSub(PageWidth(size), FloatMul(FromRat(15, 10), Inch))
    IN  [c \in 1..num_cols |-> FloatDiv(available_width, FromRat(num_cols, 1))]

ColWidths(fn, src, size) ==
    CASE fn = "word_to_pdf" -> WordWidths(src.col_widths_chars)
      [] fn = "excel_to_pdf" -> ExcelWidths(src.col_widths_chars, size)
      [] OTHER -> EqualWidths(src.cell_styles, size)

\* ---- the background colours

\* one command for every cell that has a colour, from row first_row on
CellCommands(cell_styles, first_row) ==
    Flatten([r \in 1..Len(cell_styles) |->
        IF r - 1 < first_row THEN <<>>
        ELSE Flatten([c \in 1..Len(cell_styles[r]) |->
                IF cell_styles[r][c] # None
                THEN <<Background(c - 1, r - 1, c - 1, r - 1, cell_styles[r][c])>>
                ELSE <<>>])])

HeaderCommand(color) == <<Background(0, 0, -1, 0, color)>>

AlternatingCommands_EveryRow(fn, cell_styles, every_row) ==
    Flatten([r \in 1..Len(cell_styles) |->
        IF r = 1 THEN <<>>
        ELSE <<Background(0, r - 1, -1, r - 1, AlternatingColor(fn, r - 1))>>])

\* the alternating colours of the rows after the first; a row with a colour
\* of its own is left out unless the function colours every row
AlternatingCommands(fn, cell_styles, every_row) ==
    Flatten([r \in 1..Len(cell_styles) |->
        IF r = 1 \/ (~every_row /\ RowHasCustomBg(cell_styles[r])) THEN <<>>
        ELSE <<Background(0, r - 1, -1, r - 1, AlternatingColor(fn, r - 1))>>])

\* excel_to_pdf: the colour of the first coloured cell of the first row
ExcelHeaderBg(row) ==
    IF RowHasCustomBg(row)
    THEN row[CHOOSE c \in 1..Len(row) : row[c] # None /\ \A b \in 1..(c - 1) : row[b] = None]
    ELSE HeaderAccent("excel_to_pdf")

\* the BACKGROUND commands of the table style, in the order they are appended
TableStyleOf(fn, src) ==
    LET cell_styles == src.cell_styles IN
    CASE fn = "word_to_pdf" ->
            CellCommands(cell_styles, 0)
            \o (IF cell_styles[1][1] = None THEN HeaderCommand(HeaderAccent(fn)) ELSE <<>>)
            \o AlternatingCommands(fn, cell_styles, FALSE)
      [] fn = "ppt_to_pdf" ->
            CellCommands(cell_styles, 0)
            \o (IF ~RowHasCustomBg(cell_styles[1]) THEN HeaderCommand(HeaderAccent(fn)) ELSE <<>>)
            \o AlternatingCommands(fn, cell_styles, FALSE)
      [] fn = "excel_to_pdf" ->
            (IF src.first_row_bold \/ Len(cell_styles) > 1
             THEN HeaderCommand(ExcelHeaderBg(cell_styles[1])) ELSE <<>>)
            \o CellCommands(cell_styles, 1)
            \o AlternatingCommands(fn, cell_styles, FALSE)
      [] fn = "html_to_pdf" ->
            (IF src.is_header THEN HeaderCommand(HeaderAccent(fn)) ELSE <<>>)
            \o AlternatingCommands(fn, cell_styles, TRUE)

\* ---- the actions

IdleTables ==
    /\ table_fn = "none"
    /\ table_source = <<>>
    /\ table_pc = "idle"
    /\ pagesize = "none"
    /\ col_widths = <<>>
    /\ table_style = <<>>

InitTables ==
    /\ table_fn \in TableFunctions
    /\ table_source \in SourcesOf(table_fn)
    /\ table_pc = "pagesize"
    /\ pagesize = "none"
    /\ col_widths = <<>>
    /\ table_style = <<>>

\* the document is created, once, before any table is looked at
ChoosePagesize ==
    /\ table_pc = "pagesize"
    /\ pagesize' = ChosenPagesize(table_fn, table_source)
    /\ table_pc' = "widths"
    /\ UNCHANGED <<table_fn, table_source, col_widths, table_style>>

ComputeColWidths ==
    /\ table_pc = "widths"
    /\ col_widths' = ColWidths(table_fn, table_source, pagesize)
    /\ table_pc' = "style"
    /\ UNCHANGED <<table_fn, table_source, pagesize, table_style>>

BuildTableStyle ==
    /\ table_pc = "style"
    /\ table_style' = TableStyleOf(table_fn, table_source)
    /\ table_pc' = "emitted"
    /\ UNCHANGED <<table_fn, table_source, pagesize, col_widths>>

\* ---- claims about the tables

Emitted == table_pc = "emitted"

SourceRows == table_source.cell_styles

\* the rows after the first, counted from 0 as the converters do
BodyRows == 1..(Len(SourceRows) - 1)

ColourOf(row_idx, col_idx) == SourceRows[row_idx + 1][col_idx + 1]

ColumnsOf(row_idx) == 0..(Len(SourceRows[row_idx + 1]) - 1)

HasColour(row_idx) == \E c \in ColumnsOf(row_idx) : ColourOf(row_idx, c) # None

Covers(cmd, row_idx, col_idx) ==
    /\ cmd.r0 <= row_idx /\ row_idx <= cmd.r1
    /\ cmd.c0 <= col_idx /\ (cmd.c1 = -1 \/ col_idx <= cmd.c1)

\* the background the cell is drawn with: that of the last command that covers it
EffectiveBackground(row_idx, col_idx) ==
    LET ks == {k \in 1..Len(table_style) : Covers(table_style[k], row_idx, col_idx)}
    IN  IF ks = {} THEN None
        ELSE table_style[CHOOSE k \in ks : \A j \in ks : j <= k].color

DefaultFilled(row_idx) ==
    \E k \in 1..Len(table_style) :
        table_style[k] = Background(0, row_idx, -1, row_idx, AlternatingColor(table_fn, row_idx))

HeaderColoursKept ==
    \A c \in ColumnsOf(0) : ColourOf(0, c) # None => EffectiveBackground(0, c) = ColourOf(0, c)

\* C16: in word_to_pdf, excel_to_pdf and ppt_to_pdf a table whose header row
\* has an explicit background in any of its cells keeps the source colour of
\* every such header cell as its final background, and no row of that table
\* gets the default alternating fill.
C16_HeaderColourKept ==
    (Emitted /\ table_fn \in {"word_to_pdf", "excel_to_pdf", "ppt_to_pdf"} /\ HasColour(0)) =>
        (HeaderColoursKept /\ \A r \in BodyRows : ~DefaultFilled(r))

\* ppt_to_pdf keeps the colours of the header cells
C16_InPptToPdf ==
    (Emitted /\ table_fn = "ppt_to_pdf" /\ HasColour(0)) => HeaderColoursKept

\* C17: in every emitted table a row r >= 1 without any explicit colour has
\* the default fill (white for odd r, light gray for even r) in all its cells;
\* a row with an explicit colour in some cell gets no default fill and each of
\* its coloured cells keeps its colour as the final background.
C17_AlternationUnlessColoured ==
    Emitted =>
        \A r \in BodyRows :
            IF HasColour(r)
            THEN /\ ~DefaultFilled(r)
                 /\ \A c \in ColumnsOf(r) :
                       ColourOf(r, c) # None => EffectiveBackground(r, c) = ColourOf(r, c)
            ELSE \A c \in ColumnsOf(r) :
                    EffectiveBackground(r, c) = AlternatingColor(table_fn, r)

\* an emitted table of three rows: row 1 has a coloured and a colourless cell
\* and shows them as they are, row 2 has no colour and is filled light gray
C17_Witness ==
    /\ Emitted
    /\ table_fn = "excel_to_pdf"
    /\ SourceRows = << <<None, None>>, <<"red", None>>, <<None, None>> >>
    /\ EffectiveBackground(1, 0) = "red"
    /\ EffectiveBackground(1, 1) = None
    /\ EffectiveBackground(2, 0) = "#F8F9FA"

WidthsComputed == table_pc \in {"style", "emitted"}

WithinClamp(w) ==
    /\ ~FloatLess(w, FloatMul(FromRat(5, 10), Inch))
    /\ ~FloatLess(FloatDiv(ExcelAvailableWidth(pagesize), FromRat(2, 1)), w)

ClampedWhenUnscaled ==
    ~ExcelNeedsScaling(table_source.col_widths_chars, pagesize) =>
        \A c \in 1..Len(col_widths) : WithinClamp(col_widths[c])

\* C19: in excel_to_pdf the column widths of a sheet (proportional to the
\* column's longest text, clamped to [0.5 inch, available/2], scaled by one
\* factor if they add up to more than the available width) always add up to
\* at most the available width, and lie within the clamp when not scaled.
C19_WidthsFitThePage ==
    (WidthsComputed /\ table_fn = "excel_to_pdf") =>
        /\ ~FloatLess(ExcelAvailableWidth(pagesize), FloatSum(col_widths))
        /\ ClampedWhenUnscaled

\* the widths that were not scaled lie within the clamp
C19_ClampedWhenUnscaled ==
    (WidthsComputed /\ table_fn = "excel_to_pdf") => ClampedWhenUnscaled

SomeRowIsWide == \E r \in 1..Len(SourceRows) : Len(SourceRows[r]) > WideTableCols

\* C20: in word_to_pdf and html_to_pdf the page is landscape when some row
\* of a table has more than 8 columns and portrait when none has.
C20_LandscapeWhenWide ==
    (pagesize # "none" /\ table_fn \in {"word_to_pdf", "html_to_pdf"}) =>
        (IsLandscape(pagesize) <=> SomeRowIsWide)

\* html_to_pdf goes by the first row of the table
C20_ByFirstRowInHtml ==
    (pagesize # "none" /\ table_fn = "html_to_pdf") =>
        (IsLandscape(pagesize) <=> Len(SourceRows[1]) > WideTableCols)

----------------------------------------------------------------------------
(* excel_to_pdf: the page size of the document and the rows of every sheet
   (converter.py 566-800, converter_lite.py 145-190) *)

MaxSheets == 2

\* what openpyxl gives for a worksheet
\*   max_column   ws.max_column
\*   width        ws.column_dimensions[letter].width of its columns, 0 for None
\*   min_row, max_row   first and last row with a cell that is not blank,
\*                0 for a sheet without any
\*   n_rows       ws.max_row, the rows ws.iter_rows() yields
Sheet(max_column, width, min_row, max_row, n_rows) ==
    [max_column |-> max_column, width |-> width, min_row |-> min_row,
     max_row |-> max_row, n_rows |-> n_rows]

\* sheets of one row, narrow and wide
ShapeSheets ==
    {Sheet(c, w, 1, 1, 1) : c \in {1, 8, 9, 10, 11, 15, 16, 18, 60}, w \in {0, 13, 30}}

\* sheets of one column, short and long
RowSheets ==
    {Sheet(1, 0, 0, 0, 1), Sheet(1, 0, 1, 1, 1), Sheet(1, 0, 1, 100, 100), Sheet(1, 0, 1, 101, 101),
     Sheet(1, 0, 1, 500, 500), Sheet(1, 0, 1, 501, 501), Sheet(1, 0, 2, 502, 502),
     Sheet(1, 0, 1, 600, 600)}

Workbooks ==
    UNION {[1..n -> ShapeSheets] \cup [1..n -> RowSheets] : n \in 1..MaxSheets}

\* the greatest ws.max_column of the sheets before and at position n
RECURSIVE MaxColsUpTo(_, _)
MaxColsUpTo(sheets, n) ==
    IF n = 0 THEN 0
    ELSE LET before == MaxColsUpTo(sheets, n - 1)
         IN  IF sheets[n].max_column > before THEN sheets[n].max_column ELSE before

\* range(1, min(ws.max_column + 1, 50)) has this many columns
SummedColumns(sheet) == IF sheet.max_column + 1 < 50 THEN sheet.max_column ELSE 49

\* total_width of a sheet: the widths of its columns, 10 for one without a width
TotalWidth(sheet) ==
    SummedColumns(sheet) * (IF sheet.width = 0 THEN 10 ELSE sheet.width)

RECURSIVE MaxContentWidthUpTo(_, _)
MaxContentWidthUpTo(sheets, n) ==
    IF n = 0 THEN 0
    ELSE LET before == MaxContentWidthUpTo(sheets, n - 1)
         IN  IF TotalWidth(sheets[n]) > before THEN TotalWidth(sheets[n]) ELSE before

\* converter.py: the page size from max_cols and max_content_width of all sheets
FullPagesize(sheets) ==
    ChosenPagesize("excel_to_pdf",
                   [max_cols |-> MaxColsUpTo(sheets, Len(sheets)),
                    max_content_width |-> MaxContentWidthUpTo(sheets, Len(sheets))])

\* converter_lite.py: landscape(letter) if wb.active.max_column > 8 else letter
LitePagesize(sheets, active) ==
    IF sheets[active].max_column > WideTableCols THEN "landscape(letter)" ELSE "letter"

\* converter.py reads the rows min_row .. min(max_row, min_row + 500)
RowWindow == 500

FullSheetRows(sheet) ==
    LET last == IF sheet.max_row < sheet.min_row + RowWindow
                THEN sheet.max_row ELSE sheet.min_row + RowWindow
    IN  last - sheet.min_row + 1

\* converter_lite.py appends a row and stops once len(data) >= 100
LiteRowLimit == 100

LiteSheetRows(sheet) == IF sheet.n_rows < LiteRowLimit THEN sheet.n_rows ELSE LiteRowLimit

\* what a sheet adds to the story: a table of so many rows, or the
\* paragraph 'Empty sheet'
SheetFlowable(c, sheet) ==
    IF c = "lite" THEN [kind |-> "table", rows |-> LiteSheetRows(sheet)]
    ELSE IF sheet.min_row = 0 THEN [kind |-> "empty", rows |-> 0]
    ELSE [kind |-> "table", rows |-> FullSheetRows(sheet)]

IdleWorkbook ==
    /\ workbook = <<>>
    /\ active_sheet = 0
    /\ excel_pc = "idle"
    /\ excel_pagesize = "none"
    /\ sheet_idx = 0
    /\ excel_story = <<>>

InitWorkbook ==
    /\ converter \in {"full", "lite"}
    /\ workbook \in Workbooks
    /\ active_sheet \in 1..Len(workbook)
    /\ excel_pc = "open"
    /\ excel_pagesize = "none"
    /\ sheet_idx = 0
    /\ excel_story = <<>>

\* the workbook is loaded and the document created
ExcelChoosePagesize ==
    /\ excel_pc = "open"
    /\ excel_pagesize' = IF converter = "lite" THEN LitePagesize(workbook, active_sheet)
                         ELSE FullPagesize(workbook)
    /\ excel_pc' = "sheets"
    /\ UNCHANGED <<workbook, active_sheet, sheet_idx, excel_story>>

\* one turn of the loop over wb.worksheets
ExcelEmitSheet ==
    /\ excel_pc = "sheets"
    /\ sheet_idx < Len(workbook)
    /\ sheet_idx' = sheet_idx + 1
    /\ excel_story' = Append(excel_story, SheetFlowable(converter, workbook[sheet_idx + 1]))
    /\ UNCHANGED <<workbook, active_sheet, excel_pc, excel_pagesize>>

\* pdf.build(story)
ExcelBuild ==
    /\ excel_pc = "sheets"
    /\ sheet_idx = Len(workbook)
    /\ excel_pc' = "built"
    /\ UNCHANGED <<workbook, active_sheet, excel_pagesize, sheet_idx, excel_story>>

\* ---- claims about excel_to_pdf

WorkbookCols == MaxColsUpTo(workbook, Len(workbook))

NarrowContent == MaxContentWidthUpTo(workbook, Len(workbook)) <= 120

PagesizeBySheets ==
    /\ WorkbookCols > 15 => excel_pagesize = "landscape(A3)"
    /\ (WorkbookCols <= 15 /\ NarrowContent) =>
          excel_pagesize = (IF WorkbookCols <= 10 THEN "letter" ELSE "landscape(letter)")

\* C21: in excel_to_pdf a workbook with a sheet of more than 15 columns gets
\* a landscape A3 page; with at most 15 columns on every sheet and narrow
\* content the page is letter, portrait up to 10 columns and landscape from
\* 11 to 15.
C21_PagesizeBySheets == excel_pagesize # "none" => PagesizeBySheets

\* converter.py chooses the page size that way
C21_InConverterPy == (excel_pagesize # "none" /\ converter = "full") => PagesizeBySheets

RowCap(c) == IF c = "lite" THEN 100 ELSE 500

TablesWithin(cap) ==
    \A k \in 1..Len(excel_story) :
        excel_story[k].kind = "table" => excel_story[k].rows <= cap

\* C22: the table excel_to_pdf emits for a sheet has at most 500 rows in
\* converter.py and at most 100 rows in converter_lite.py, however many rows
\* the sheet has.
C22_RowsCapped == TablesWithin(RowCap(converter))

\* converter_lite.py stops at 100 rows
C22_InConverterLite == converter = "lite" => TablesWithin(LiteRowLimit)

\* converter.py reads the first row of the data and the 500 rows after it
C22_WindowAndOne == converter = "full" => TablesWithin(RowWindow + 1)

----------------------------------------------------------------------------
(* pdf_to_images: the files in the output folder (converter.py 2306-2393) *)

MaxPages == 3

ImageFormats == {"png", "jpg", "jpeg", "tiff"}

\* ext = format.lower(), 'jpeg' for 'jpg'
ExtOf(format) == IF format = "jpg" THEN "jpeg" ELSE format

\* the file <output_basename>-<n>.<ext> of the output folder
Numbered(n, ext) == [name |-> "numbered", num |-> n, ext |-> ext]

\* the file the caller asked for, in single file mode
Requested == [name |-> "requested", num |-> 0, ext |-> ""]

\* files of an earlier run in the folder
StaleFiles(ext) == SUBSET {Numbered(n, ext) : n \in 1..(MaxPages + 1)}

\* the files Ghostscript writes for the pattern <output_basename>-%d.<ext>
Generated(n, ext) == {Numbered(k, ext) : k \in 1..n}

IdleImages ==
    /\ image_format = "none"
    /\ is_single_file = FALSE
    /\ gs_pages = 0
    /\ folder = {}
    /\ images_pc = "idle"
    /\ page_num = 0

\* gs_pages is the number of pages of the PDF, 0 when Ghostscript fails
InitImages ==
    /\ image_format \in ImageFormats
    /\ is_single_file \in BOOLEAN
    /\ gs_pages \in 0..MaxPages
    /\ folder \in StaleFiles(ExtOf(image_format))
    /\ images_pc = "ghostscript"
    /\ page_num = 0

\* subprocess.run(gs_args, check=True)
RunGhostscript ==
    /\ images_pc = "ghostscript"
    /\ IF gs_pages = 0
       THEN images_pc' = "raised" /\ UNCHANGED folder
       ELSE /\ folder' = folder \cup Generated(gs_pages, ExtOf(image_format))
            /\ images_pc' = "rename"
    /\ UNCHANGED <<image_format, is_single_file, gs_pages, page_num>>

\* os.rename(first_generated, output_path), when the first file exists
RenameFirst ==
    /\ images_pc = "rename"
    /\ is_single_file
    /\ Numbered(1, ExtOf(image_format)) \in folder
    /\ folder' = (folder \ {Numbered(1, ExtOf(image_format))}) \cup {Requested}
    /\ page_num' = 2
    /\ images_pc' = "remove"
    /\ UNCHANGED <<image_format, is_single_file, gs_pages>>

\* directory output, or no first file: nothing is renamed
NoRename ==
    /\ images_pc = "rename"
    /\ ~(is_single_file /\ Numbered(1, ExtOf(image_format)) \in folder)
    /\ images_pc' = "done"
    /\ UNCHANGED <<image_format, is_single_file, gs_pages, folder, page_num>>

\* one turn of the while loop: os.remove(next_page), or break
RemoveNextPage ==
    /\ images_pc = "remove"
    /\ IF Numbered(page_num, ExtOf(image_format)) \in folder
       THEN /\ folder' = folder \ {Numbered(page_num, ExtOf(image_format))}
            /\ page_num' = page_num + 1
            /\ UNCHANGED images_pc
       ELSE /\ images_pc' = "done"
            /\ UNCHANGED <<folder, page_num>>
    /\ UNCHANGED <<image_format, is_single_file, gs_pages>>

\* ---- claims about pdf_to_images

ImagesDone == images_pc = "done"

FirstPage == Numbered(1, ExtOf(image_format))

AllPagesKept == Generated(gs_pages, ExtOf(image_format)) \subseteq folder

SinglePageRenamed ==
    (is_single_file /\ gs_pages = 1) => (Requested \in folder /\ FirstPage \notin folder)

\* C24: pdf_to_images renames '<base>-1.<ext>' to the requested file name
\* when a single file is asked for and exactly one page was produced, and
\* only then: a result of several pages keeps all its numbered files, and in
\* directory mode nothing is renamed.
C24_RenameOnlySinglePage ==
    ImagesDone =>
        /\ SinglePageRenamed
        /\ gs_pages > 1 => (AllPagesKept /\ Requested \notin folder)
        /\ ~is_single_file => (AllPagesKept /\ Requested \notin folder)

\* one page asked for as a single file gets the requested name
C24_SinglePageRenamed == ImagesDone => SinglePageRenamed

\* directory output keeps every numbered file and renames none
C24_DirectoryKeepsAll ==
    (ImagesDone /\ ~is_single_file) => (AllPagesKept /\ Requested \notin folder)

----------------------------------------------------------------------------
(* word_to_pdf: the images of the paragraphs *)

MaxWordSize == 4
MaxRels == 2

\* a paragraph of the body: its runs ('graphic' in run._element.xml or not)
\* and whether para.text.strip() is non-empty
WordPara(runs, text) == [runs |-> runs, text |-> text]

\* the bodies of at most n paragraphs and runs together
RECURSIVE WordBodies(_)
WordBodies(n) ==
    IF n = 0 THEN {<<>>}
    ELSE LET smaller == WordBodies(n - 1)
         IN  smaller
             \cup {Append(b, WordPara(<<>>, text)) : b \in smaller, text \in BOOLEAN}
             \cup {[b EXCEPT ![Len(b)].runs = Append(@, graphic)] :
                      b \in smaller \ {<<>>}, graphic \in BOOLEAN}

\* a relationship of the document part: whether "image" is in its target_ref
\* and whether RLImage can read its blob
WordRel(image, loads) == [image |-> image, loads |-> loads]

WordRelKinds == {WordRel(TRUE, TRUE), WordRel(TRUE, FALSE), WordRel(FALSE, FALSE)}

WordRelLists == UNION {[1..m -> WordRelKinds] : m \in 0..MaxRels}

GraphicRuns(body) ==
    {<<i, j>> \in (1..Len(body)) \X (1..MaxWordSize) :
        j <= Len(body[i].runs) /\ body[i].runs[j]}

ImageRels(rels) == {r \in 1..Len(rels) : rels[r].image}

\* for rel in run.part.rels.values(): if "image" in rel.target_ref: ...
\* st is [counter, files, story]
RECURSIVE CopyImages(_, _, _)
CopyImages(rels, r, st) ==
    IF r > Len(rels) THEN st
    ELSE IF ~rels[r].image THEN CopyImages(rels, r + 1, st)
    ELSE LET n == st.counter + 1
             written == [st EXCEPT !.counter = n, !.files = @ \cup {n}]
         IN  CopyImages(rels, r + 1,
                 IF rels[r].loads
                 THEN [written EXCEPT !.story = Append(@, [type |-> "image", rel |-> r,
                                                           path |-> n])]
                 ELSE written)

\* for run in para.runs: if 'graphic' in run._element.xml: ...
RECURSIVE CopyRuns(_, _, _, _)
CopyRuns(runs, j, rels, st) ==
    IF j > Len(runs) THEN st
    ELSE CopyRuns(runs, j + 1, rels, IF runs[j] THEN CopyImages(rels, 1, st) ELSE st)

HasImage(para) == \E j \in 1..Len(para.runs) : para.runs[j]

IdleWord ==
    /\ word_body = <<>>
    /\ word_rels = <<>>
    /\ word_pc = "idle"
    /\ word_idx = 0
    /\ word_image_counter = 0
    /\ word_files = {}
    /\ word_story = <<>>

\* a document whose graphics are pictures: every image relationship is that
\* of a picture in a run, and a run with a picture has one
InitWord ==
    /\ word_body \in WordBodies(MaxWordSize)
    /\ word_rels \in WordRelLists
    /\ Cardinality(ImageRels(word_rels)) <= Cardinality(GraphicRuns(word_body))
    /\ GraphicRuns(word_body) # {} => ImageRels(word_rels) # {}
    /\ word_pc = "body"
    /\ word_idx = 1
    /\ word_image_counter = 0
    /\ word_files = {}
    /\ word_story = <<>>

\* one paragraph of the body: the images of its runs, then its text unless a
\* run had a graphic
WordParagraph ==
    /\ word_pc = "body"
    /\ word_idx <= Len(word_body)
    /\ LET para == word_body[word_idx]
           st == CopyRuns(para.runs, 1, word_rels,
                          [counter |-> word_image_counter, files |-> word_files,
                           story |-> word_story])
       IN  /\ word_image_counter' = st.counter
           /\ word_files' = st.files
           /\ word_story' = IF para.text /\ ~HasImage(para)
                            THEN Append(st.story, [type |-> "text", rel |-> 0, path |-> 0])
                            ELSE st.story
    /\ word_idx' = word_idx + 1
    /\ UNCHANGED <<word_body, word_rels, word_pc>>

\* pdf.build(story), shutil.rmtree(temp_dir), the report of image_counter
WordBuild ==
    /\ word_pc = "body"
    /\ word_idx > Len(word_body)
    /\ word_files' = {}
    /\ word_pc' = "done"
    /\ UNCHANGED <<word_body, word_rels, word_idx, word_image_counter, word_story>>

WordDone == word_pc = "done"

EmittedImages == {k \in 1..Len(word_story) : word_story[k].type = "image"}

AllImagesLoad == \A r \in ImageRels(word_rels) : word_rels[r].loads

\* C30: word_to_pdf copies every embedded image once: when every image can be
\* read, the images in the story and the final image_counter are as many as
\* the graphics in the runs of the document, not graphics times relationships.
C30_OneImagePerGraphic ==
    (WordDone /\ AllImagesLoad) =>
        /\ Cardinality(EmittedImages) = Cardinality(GraphicRuns(word_body))
        /\ word_image_counter = Cardinality(GraphicRuns(word_body))

\* what the loops give: every run with a graphic copies every image
\* relationship of the part
C30_GraphicsTimesRels ==
    WordDone =>
        /\ word_image_counter
              = Cardinality(GraphicRuns(word_body)) * Cardinality(ImageRels(word_rels))
        /\ AllImagesLoad => Cardinality(EmittedImages) = word_image_counter

\* with one image in the document the counts are those of the graphics
C30_SingleImage ==
    (WordDone /\ AllImagesLoad /\ Cardinality(ImageRels(word_rels)) = 1) =>
        /\ Cardinality(EmittedImages) = Cardinality(GraphicRuns(word_body))
        /\ word_image_counter = Cardinality(GraphicRuns(word_body))

-----------------------------------------------------------------------------
(* Specifications *)

InitMain == InitMainVars /\ IdlePage /\ IdleTemp /\ IdleParser /\ IdleTables /\ IdleWorkbook /\ IdleImages
    /\ IdleWord

NextMain ==
    \/ MainCheckArgs /\ UNCHANGED <<pageVars, tempVars, parserVars, tableVars, workbookVars, imagesVars, wordVars>>
    \/ MainCheckInput /\ UNCHANGED <<pageVars, tempVars, parserVars, tableVars, workbookVars, imagesVars, wordVars>>
    \/ MainLookup /\ UNCHANGED <<pageVars, tempVars, parserVars, tableVars, workbookVars, imagesVars, wordVars>>
    \/ MainConvert /\ UNCHANGED <<pageVars, tempVars, parserVars, tableVars, workbookVars, imagesVars, wordVars>>

SpecMain == InitMain /\ [][NextMain]_vars

InitPdfHtml == InitPage /\ IdleMain /\ IdleTemp /\ IdleParser /\ IdleTables /\ IdleWorkbook /\ IdleImages
    /\ IdleWord

NextPdfHtml ==
    \/ HtmlExtractTables /\ UNCHANGED <<mainVars, tempVars, parserVars, tableVars, workbookVars, imagesVars, wordVars>>
    \/ HtmlExtractImages /\ UNCHANGED <<mainVars, tempVars, parserVars, tableVars, workbookVars, imagesVars, wordVars>>
    \/ HtmlExtractText /\ UNCHANGED <<mainVars, tempVars, parserVars, tableVars, workbookVars, imagesVars, wordVars>>
    \/ HtmlMergeSort /\ UNCHANGED <<mainVars, tempVars, parserVars, tableVars, workbookVars, imagesVars, wordVars>>
    \/ HtmlRender /\ UNCHANGED <<mainVars, tempVars, parserVars, tableVars, workbookVars, imagesVars, wordVars>>
    \/ LiteExtractText /\ UNCHANGED <<mainVars, tempVars, parserVars, tableVars, workbookVars, imagesVars, wordVars>>
    \/ LiteExtractTables /\ UNCHANGED <<mainVars, tempVars, parserVars, tableVars, workbookVars, imagesVars, wordVars>>
    \/ PptAddImages /\ UNCHANGED <<mainVars, tempVars, parserVars, tableVars, workbookVars, imagesVars, wordVars>>
    \/ PptAddText /\ UNCHANGED <<mainVars, tempVars, parserVars, tableVars, workbookVars, imagesVars, wordVars>>
    \/ PptAddTables /\ UNCHANGED <<mainVars, tempVars, parserVars, tableVars, workbookVars, imagesVars, wordVars>>

SpecPdfHtml == InitPdfHtml /\ [][NextPdfHtml]_vars

InitTempDir == InitTemp /\ IdleMain /\ converter = "full" /\ IdlePage /\ IdleParser /\ IdleTables /\ IdleWorkbook /\ IdleImages
    /\ IdleWord

NextTempDir ==
    \/ Mkdtemp /\ UNCHANGED <<mainVars, pageVars, parserVars, tableVars, workbookVars, imagesVars, wordVars>>
    \/ ProcessElement /\ UNCHANGED <<mainVars, pageVars, parserVars, tableVars, workbookVars, imagesVars, wordVars>>
    \/ SkipElement /\ UNCHANGED <<mainVars, pageVars, parserVars, tableVars, workbookVars, imagesVars, wordVars>>
    \/ ElementRaises /\ UNCHANGED <<mainVars, pageVars, parserVars, tableVars, workbookVars, imagesVars, wordVars>>
    \/ BuildPdf /\ UNCHANGED <<mainVars, pageVars, parserVars, tableVars, workbookVars, imagesVars, wordVars>>

SpecTempDir == InitTempDir /\ [][NextTempDir]_vars

InitHtmlParser == InitParser /\ IdleMain /\ converter = "full" /\ IdlePage /\ IdleTemp /\ IdleTables /\ IdleWorkbook /\ IdleImages
    /\ IdleWord

NextHtmlParser ==
    \/ HandleStartTag /\ UNCHANGED <<mainVars, pageVars, tempVars, tableVars, workbookVars, imagesVars, wordVars>>
    \/ HandleEndTag /\ UNCHANGED <<mainVars, pageVars, tempVars, tableVars, workbookVars, imagesVars, wordVars>>
    \/ HandleData /\ UNCHANGED <<mainVars, pageVars, tempVars, tableVars, workbookVars, imagesVars, wordVars>>
    \/ FeedEnd /\ UNCHANGED <<mainVars, pageVars, tempVars, tableVars, workbookVars, imagesVars, wordVars>>

SpecHtmlParser == InitHtmlParser /\ [][NextHtmlParser]_vars

InitTableEmit ==
    InitTables /\ IdleMain /\ converter = "full" /\ IdlePage /\ IdleTemp /\ IdleParser
    /\ IdleWorkbook /\ IdleImages
    /\ IdleWord

NextTableEmit ==
    \/ ChoosePagesize /\ UNCHANGED <<mainVars, pageVars, tempVars, parserVars, workbookVars, imagesVars, wordVars>>
    \/ ComputeColWidths /\ UNCHANGED <<mainVars, pageVars, tempVars, parserVars, workbookVars, imagesVars, wordVars>>
    \/ BuildTableStyle /\ UNCHANGED <<mainVars, pageVars, tempVars, parserVars, workbookVars, imagesVars, wordVars>>

SpecTableEmit == InitTableEmit /\ [][NextTableEmit]_vars

InitExcel == InitWorkbook /\ IdleMain /\ IdlePage /\ IdleTemp /\ IdleParser /\ IdleTables /\ IdleImages
    /\ IdleWord

NextExcel ==
    \/ ExcelChoosePagesize /\ UNCHANGED <<mainVars, pageVars, tempVars, parserVars, tableVars, imagesVars, wordVars>>
    \/ ExcelEmitSheet /\ UNCHANGED <<mainVars, pageVars, tempVars, parserVars, tableVars, imagesVars, wordVars>>
    \/ ExcelBuild /\ UNCHANGED <<mainVars, pageVars, tempVars, parserVars, tableVars, imagesVars, wordVars>>

SpecExcel == InitExcel /\ [][NextExcel]_vars

InitPdfImages ==
    InitImages /\ IdleMain /\ converter = "full" /\ IdlePage /\ IdleTemp /\ IdleParser
    /\ IdleTables /\ IdleWorkbook
    /\ IdleWord

NextPdfImages ==
    \/ RunGhostscript
          /\ UNCHANGED <<mainVars, pageVars, tempVars, parserVars, tableVars, workbookVars, wordVars>>
    \/ RenameFirst
          /\ UNCHANGED <<mainVars, pageVars, tempVars, parserVars, tableVars, workbookVars, wordVars>>
    \/ NoRename
          /\ UNCHANGED <<mainVars, pageVars, tempVars, parserVars, tableVars, workbookVars, wordVars>>
    \/ RemoveNextPage
          /\ UNCHANGED <<mainVars, pageVars, tempVars, parserVars, tableVars, workbookVars, wordVars>>

SpecPdfImages == InitPdfImages /\ [][NextPdfImages]_vars

InitWordImages ==
    InitWord /\ IdleMain /\ converter = "full" /\ IdlePage /\ IdleTemp /\ IdleParser
    /\ IdleTables /\ IdleWorkbook /\ IdleImages

NextWordImages ==
    \/ WordParagraph
          /\ UNCHANGED <<mainVars, pageVars, tempVars, parserVars, tableVars, workbookVars,
                         imagesVars>>
    \/ WordBuild
          /\ UNCHANGED <<mainVars, pageVars, tempVars, parserVars, tableVars, workbookVars,
                         imagesVars>>

SpecWordImages == InitWordImages /\ [][NextWordImages]_vars

====
